---- MODULE Spec2Model ----
(***************************************************************************)
(* OpenCanvas: the document/history store of App (src/src/App.tsx, the     *)
(* multi-document App) and the pointer/text interaction of Canvas          *)
(* (src/src/lib/types.ts, function Canvas), the localStorage persistence   *)
(* of App, and CollaborationService (src/src/lib/collaboration.ts) with    *)
(* the peers, channels, storage events and timers around it.               *)
(*                                                                         *)
(* Every React event handler is one atomic action: it reads the state of   *)
(* the last render (its closure) and its setState calls, together with the *)
(* effects React runs for them, make the next state.                       *)
(*                                                                         *)
(* Encodings.  null is the empty sequence and a present value v is <<v>>   *)
(* (Null / Some).  Indices keep the source's 0-based values, so the        *)
(* snapshot at historyIndex is history[historyIndex + 1].  A DrawingState  *)
(* is modelled by its actions array (currentAction is null in every        *)
(* committed state).  A text is a sequence of characters.  Colour, font    *)
(* and line width are left out: no handler modelled here branches on them. *)
(***************************************************************************)
EXTENDS Integers, Sequences, FiniteSets, TLC

VARIABLES
  documents,          \* App: Document[]  (id, history, historyIndex)
  currentDocumentId,  \* App: string | null
  tool,               \* App: Tool
  now,                \* the value Date.now() returns
  isDrawing,          \* Canvas
  currentAction,      \* Canvas: DrawingAction | null
  selectedImage,      \* Canvas: DrawingAction | null
  selectedImageIndex, \* Canvas: number | null
  selectedText,       \* Canvas: DrawingAction | null
  selectedTextIndex,  \* Canvas: number | null
  isResizing,         \* Canvas
  resizeHandle,       \* Canvas: string | null
  isDragging,         \* Canvas
  dragStart,          \* Canvas: Point | null
  activeTextInput,    \* Canvas: {position, initialValue} | null
  inputValue,         \* Canvas: inputRef.current.value
  lastOp,             \* the handler that made the last step (see Op)
  shareId,            \* CollaborationService: string | null
  currentUser,        \* CollaborationService: CollaborationUser | null
  connectedUsers,     \* CollaborationService: Map<string, CollaborationUser>
  broadcastChannel,   \* CollaborationService: BroadcastChannel | null (its name)
  openChannels,       \* names of the BroadcastChannel objects not closed
  storageListeners,   \* number of 'storage' listeners registered on window
  pollTimers,         \* number of setInterval timers running
  sessionStore,       \* sessionStorage: share ids with a session record
  durableStore,       \* localStorage: share ids with a session record
  storedEvents,       \* localStorage: the event entries, in the order written
  posted,             \* what this context has posted on BroadcastChannels
  notified,           \* the lists the last step passed to onUsersChange
  setups,             \* number of ids generateUserId / generateShareId made
  savedDocs,          \* sessionStorage: the parsed openCanvasDocuments and
                      \* openCanvasCurrentId items, or null
  imageDataCache,     \* App: the image ids that have a data URL cached
  pendingImage        \* Canvas image input: the file whose load callbacks
                      \* have not run yet, with what their closure holds

appVars == <<documents, currentDocumentId, tool, now>>
gestureVars == <<isDrawing, currentAction, isResizing, resizeHandle, isDragging, dragStart>>
selectionVars == <<selectedImage, selectedImageIndex, selectedText, selectedTextIndex>>
textVars == <<activeTextInput, inputValue>>
canvasVars == <<gestureVars, selectionVars, textVars>>
collabVars == <<shareId, currentUser, connectedUsers, broadcastChannel,
                openChannels, storageListeners, pollTimers, sessionStore,
                durableStore, storedEvents, posted, notified, setups>>
storeVars == <<savedDocs, imageDataCache, pendingImage>>
vars == <<appVars, canvasVars, lastOp, collabVars, storeVars>>

----------------------------------------------------------------------------
(* Bounds of the model *)

MaxDocs == 2
MaxHistory == 2
MaxClock == 1
MaxPoints == 2
MaxSetups == 2
MaxEvents == 2

----------------------------------------------------------------------------
(* Values *)

Null == <<>>
Some(v) == <<v>>
IsNull(o) == o = <<>>
Val(o) == o[1]

Pt(px, py) == [x |-> px, y |-> py]

\* pointer positions the environment delivers (offsetX, offsetY)
Points == {Pt(0, 0), Pt(10, 10), Pt(106, 106), Pt(120, 120)}

\* natural sizes of uploaded images
NaturalSizes == {[width |-> 20, height |-> 20]}

\* contents typed into the text input
Texts == {<<>>, <<" ">>, <<"a">>, <<"b">>}

DrawTools == {"pencil", "eraser"}
Tools == {"hand", "pencil", "eraser", "text", "image"}

\* StrokeAction that starts the stroke without the point of the pointer-down
StrokeActionNoPoints(t, pts) ==
  [tool |-> t, points |-> <<>>, textElement |-> Null, imageElement |-> Null]

StrokeAction(t, pts) ==
  [tool |-> t, points |-> pts, textElement |-> Null, imageElement |-> Null]

TextAction(txt, pos) ==
  [tool |-> "text", points |-> <<>>,
   textElement |-> Some([text |-> txt, position |-> pos]), imageElement |-> Null]

\* imageId is null in an element that has no imageId field
ImageAction(imageId, pos, w, h) ==
  [tool |-> "image", points |-> <<>>, textElement |-> Null,
   imageElement |-> Some([imageId |-> imageId, position |-> pos,
                          width |-> w, height |-> h])]

DocId(t, isCopy) == [t |-> t, copy |-> isCopy]

NewDocumentRecord(id) == [id |-> id, history |-> <<>>, historyIndex |-> -1]

----------------------------------------------------------------------------
(* App: derived values *)

\* docs.findIndex(d => d.id === id), 1-based, 0 when there is none
RECURSIVE FindFrom(_, _, _)
FindFrom(docs, id, i) ==
  IF i > Len(docs) THEN 0
  ELSE IF docs[i].id = id THEN i
  ELSE FindFrom(docs, id, i + 1)

FindIndex(docs, idOpt) ==
  IF IsNull(idOpt) THEN 0 ELSE FindFrom(docs, Val(idOpt), 1)

currentDocument == FindIndex(documents, currentDocumentId)

currentHistory ==
  IF currentDocument = 0 THEN <<>> ELSE documents[currentDocument].history

currentHistoryIndex ==
  IF currentDocument = 0 THEN -1 ELSE documents[currentDocument].historyIndex

\* history[historyIndex] ?? { actions: [] } as the handlers read it
StateAt(history, historyIndex) ==
  IF historyIndex >= 0 /\ historyIndex < Len(history)
  THEN history[historyIndex + 1] ELSE <<>>

\* history[historyIndex] is defined
HasState(history, historyIndex) ==
  historyIndex >= 0 /\ historyIndex < Len(history)

canUndo == currentHistoryIndex > 0
canRedo == currentHistoryIndex < Len(currentHistory) - 1

----------------------------------------------------------------------------
(* App: the history store *)

\* Array.prototype.slice(0, k) for k >= 0
Slice0(s, k) == SubSeq(s, 1, IF k > Len(s) THEN Len(s) ELSE k)

ReplaceAt(s, i, v) == [j \in 1..Len(s) |-> IF j = i THEN v ELSE s[j]]

\* NextHistory with the slice one short, slice(0, historyIndex): the snapshot
\* at the cursor is dropped with the redoable ones
NextHistoryDropsCurrent(doc, newState) ==
  Slice0(doc.history, IF doc.historyIndex < 0 THEN 0 ELSE doc.historyIndex)
    \o <<newState>>

\* the history a commit of newState makes of a document
NextHistory(doc, newState) ==
  Slice0(doc.history, doc.historyIndex + 1) \o <<newState>>

CommittedDoc(doc, newState) ==
  [doc EXCEPT !.history = NextHistory(doc, newState),
              !.historyIndex = Len(NextHistory(doc, newState)) - 1]

\* handleStateChange with a full DrawingState: the value of documents after it
StateChange(docs, curId, newState) ==
  LET docIndex == FindIndex(docs, curId) IN
  IF IsNull(curId) \/ docIndex = 0 THEN docs
  ELSE ReplaceAt(docs, docIndex, CommittedDoc(docs[docIndex], newState))

\* handleStateChange with a single DrawingAction (image upload)
ActionChange(docs, curId, newAction) ==
  LET docIndex == FindIndex(docs, curId) IN
  IF IsNull(curId) \/ docIndex = 0 THEN docs
  ELSE LET currentDoc == docs[docIndex]
           currentState == StateAt(currentDoc.history, currentDoc.historyIndex)
       IN ReplaceAt(docs, docIndex,
                    CommittedDoc(currentDoc, Append(currentState, newAction)))

\* handleUndo with the early return on historyIndex < 0 instead of <= 0
UndoDocsBelowFirst(docs, curId, curIndex) ==
  IF IsNull(curId) \/ curIndex < 0 THEN docs
  ELSE [i \in 1..Len(docs) |->
          IF docs[i].id = Val(curId)
          THEN [docs[i] EXCEPT !.historyIndex = curIndex - 1]
          ELSE docs[i]]

\* handleUndo: the early return, then docs.map(...)
UndoDocs(docs, curId, curIndex) ==
  IF IsNull(curId) \/ curIndex <= 0 THEN docs
  ELSE [i \in 1..Len(docs) |->
          IF docs[i].id = Val(curId)
          THEN [docs[i] EXCEPT !.historyIndex = curIndex - 1]
          ELSE docs[i]]

\* handleRedo
RedoDocs(docs, curId, curIndex, curHistory) ==
  IF IsNull(curId) \/ curIndex >= Len(curHistory) - 1 THEN docs
  ELSE [i \in 1..Len(docs) |->
          IF docs[i].id = Val(curId)
          THEN [docs[i] EXCEPT !.historyIndex = curIndex + 1]
          ELSE docs[i]]

\* docs.filter(doc => doc.id !== docId)
RECURSIVE FilterOut(_, _)
FilterOut(docs, docId) ==
  IF docs = <<>> THEN <<>>
  ELSE IF Head(docs).id = docId THEN FilterOut(Tail(docs), docId)
  ELSE <<Head(docs)>> \o FilterOut(Tail(docs), docId)

\* handleDeleteDocument: the list the updater returns
DeleteDocs(docs, docId) == FilterOut(docs, docId)

\* handleDeleteDocument without setCurrentDocumentId(null) for the empty list
DeleteCurrentKeepsId(docs, curId, docId) ==
  LET newDocs == FilterOut(docs, docId) IN
  IF Len(newDocs) = 0 THEN curId
  ELSE IF curId = Some(docId) THEN Some(newDocs[1].id)
  ELSE curId

\* handleDeleteDocument: the current id after it
DeleteCurrent(docs, curId, docId) ==
  LET newDocs == FilterOut(docs, docId) IN
  IF Len(newDocs) = 0 THEN Null
  ELSE IF curId = Some(docId) THEN Some(newDocs[1].id)
  ELSE curId

\* handleCopyDocument: the list after inserting the copy behind the original
CopyDocs(docs, docId, t) ==
  LET originalIndex == FindFrom(docs, docId, 1) IN
  IF originalIndex = 0 THEN docs
  ELSE LET docToCopy == docs[originalIndex]
           newDocument == [docToCopy EXCEPT !.id = DocId(t, TRUE)]
       IN Slice0(docs, originalIndex) \o <<newDocument>>
            \o SubSeq(docs, originalIndex + 1, Len(docs))

----------------------------------------------------------------------------
(* Canvas: text helpers *)

fontSize == 16
CharWidth == 8
handleSize == 10
MinSize == 10

IsSpace(c) == c = " "

\* String.prototype.trim
RECURSIVE TrimLeft(_)
TrimLeft(t) ==
  IF t = <<>> THEN <<>>
  ELSE IF IsSpace(Head(t)) THEN TrimLeft(Tail(t)) ELSE t

RECURSIVE TrimRight(_)
TrimRight(t) ==
  IF t = <<>> THEN <<>>
  ELSE IF IsSpace(t[Len(t)]) THEN TrimRight(SubSeq(t, 1, Len(t) - 1)) ELSE t

Trim(t) == TrimRight(TrimLeft(t))

\* context.measureText(text).width for the fixed font
MeasureWidth(t) == CharWidth * Len(t)

\* saveActiveText as the earlier Canvas had it (components/canvas.tsx 43-78):
\* it commits a non-empty text and closes the editor in every case
SaveActiveTextAlwaysCloses(docs, curId, history, historyIndex, active, value) ==
  IF IsNull(active)
  THEN [docs |-> docs, active |-> active, value |-> value, committed |-> FALSE]
  ELSE
    LET commits == Len(Trim(value)) > 0
        newActions ==
          Append(StateAt(history, historyIndex),
                 TextAction(value, Val(active).position))
    IN [docs |-> IF commits THEN StateChange(docs, curId, newActions) ELSE docs,
        active |-> Null,
        value |-> <<>>,
        committed |-> commits]

\* What one saveActiveText() call makes of (documents, activeTextInput, input
\* value).  history/historyIndex are the props of the closure that runs it.
SaveActiveText(docs, curId, history, historyIndex, active, value) ==
  IF IsNull(active)
  THEN [docs |-> docs, active |-> active, value |-> value, committed |-> FALSE]
  ELSE
    LET text == value
        initialValue == Val(active).initialValue
        isTrimmedEmpty == Len(Trim(text)) = 0
        isIdenticalToInitial == initialValue # <<>> /\ text = initialValue
        commits == ~isTrimmedEmpty /\ ~isIdenticalToInitial
        shouldDeactivate ==
          IF ~isTrimmedEmpty THEN TRUE ELSE initialValue # <<>>
        newActions ==
          Append(StateAt(history, historyIndex),
                 TextAction(text, Val(active).position))
    IN [docs |-> IF commits THEN StateChange(docs, curId, newActions) ELSE docs,
        active |-> IF shouldDeactivate THEN Null ELSE active,
        value |-> IF shouldDeactivate THEN <<>> ELSE value,
        committed |-> commits]

\* A second saveActiveText() in the same handler: the closure still holds the
\* old activeTextInput, the input element holds what the first call left.
SaveActiveTextTwice(docs, curId, history, historyIndex, active, value) ==
  LET r1 == SaveActiveText(docs, curId, history, historyIndex, active, value)
      r2 == SaveActiveText(r1.docs, curId, history, historyIndex, active, r1.value)
  IN [docs |-> r2.docs,
      active |-> IF IsNull(r1.active) THEN Null ELSE r2.active,
      value |-> r2.value,
      committed |-> r1.committed \/ r2.committed]

\* The value of the input element after a handler: a newly mounted input
\* shows defaultValue, an input that stays mounted keeps its value.
InputAfter(oldActive, newActive, value) ==
  IF IsNull(newActive) THEN <<>>
  ELSE IF IsNull(oldActive) THEN Val(newActive).initialValue
  ELSE value

----------------------------------------------------------------------------
(* Canvas: hit testing *)

isPointInImage(point, image) ==
  /\ point.x >= image.position.x
  /\ point.x <= image.position.x + image.width
  /\ point.y >= image.position.y
  /\ point.y <= image.position.y + image.height

\* the loop of hitTestImage run upwards instead: the lowest index in 0..i
\* whose image holds the point
hitTestImageLowest(actions, point, i) ==
  LET hits == {k \in 0..i : /\ ~IsNull(actions[k + 1].imageElement)
                            /\ isPointInImage(point,
                                              Val(actions[k + 1].imageElement))}
  IN IF hits = {} THEN -1 ELSE CHOOSE k \in hits : \A m \in hits : k <= m

\* the loop of hitTestImage from index i (0-based) downwards; -1 is null
RECURSIVE hitTestImageFrom(_, _, _)
hitTestImageFrom(actions, point, i) ==
  IF i < 0 THEN -1
  ELSE IF /\ ~IsNull(actions[i + 1].imageElement)
          /\ isPointInImage(point, Val(actions[i + 1].imageElement))
       THEN i
       ELSE hitTestImageFrom(actions, point, i - 1)

\* hitTestImage: the index of the hit action, -1 for null
hitTestImage(history, historyIndex, point) ==
  IF ~HasState(history, historyIndex) THEN -1
  ELSE hitTestImageFrom(history[historyIndex + 1], point,
                        Len(history[historyIndex + 1]) - 1)

isPointInText(point, textElement) ==
  /\ point.x >= textElement.position.x
  /\ point.x <= textElement.position.x + MeasureWidth(textElement.text)
  /\ point.y >= textElement.position.y
  /\ 10 * point.y <= 10 * textElement.position.y + 12 * fontSize

RECURSIVE textHitTestFrom(_, _, _)
textHitTestFrom(actions, point, i) ==
  IF i < 0 THEN -1
  ELSE IF /\ ~IsNull(actions[i + 1].textElement)
          /\ isPointInText(point, Val(actions[i + 1].textElement))
       THEN i
       ELSE textHitTestFrom(actions, point, i - 1)

textHitTest(history, historyIndex, point) ==
  IF ~HasState(history, historyIndex) THEN -1
  ELSE textHitTestFrom(history[historyIndex + 1], point,
                       Len(history[historyIndex + 1]) - 1)

InHandle(point, hx, hy) ==
  /\ 2 * point.x >= 2 * hx - handleSize
  /\ 2 * point.x <= 2 * hx + handleSize
  /\ 2 * point.y >= 2 * hy - handleSize
  /\ 2 * point.y <= 2 * hy + handleSize

\* getResizeHandle: the first of nw, ne, sw, se whose zone holds the point
getResizeHandle(point, imageAction) ==
  IF IsNull(imageAction.imageElement) THEN Null
  ELSE LET im == Val(imageAction.imageElement)
           px == im.position.x
           py == im.position.y
       IN IF InHandle(point, px, py) THEN Some("nw")
          ELSE IF InHandle(point, px + im.width, py) THEN Some("ne")
          ELSE IF InHandle(point, px, py + im.height) THEN Some("sw")
          ELSE IF InHandle(point, px + im.width, py + im.height) THEN Some("se")
          ELSE Null

----------------------------------------------------------------------------
(* Initial state: App mounted with nothing saved, so the mount effect has   *)
(* called handleNewDocument once; Canvas mounted with its useState values.  *)

\* what lastOp records of a step of a handler that reads the current
\* document's history: the handler, its argument, and the historyIndex and
\* history.length it ran with
Op(name, arg) ==
  [op |-> name, arg |-> arg,
   cursor |-> currentHistoryIndex, length |-> Len(currentHistory)]

\* what lastOp records of a step of a handler that does not read them
AppOp(name) == [op |-> name, arg |-> Null, cursor |-> -1, length |-> 0]

CanvasInit ==
  /\ isDrawing = FALSE
  /\ currentAction = Null
  /\ selectedImage = Null
  /\ selectedImageIndex = Null
  /\ selectedText = Null
  /\ selectedTextIndex = Null
  /\ isResizing = FALSE
  /\ resizeHandle = Null
  /\ isDragging = FALSE
  /\ dragStart = Null
  /\ activeTextInput = Null
  /\ inputValue = <<>>

\* the state a freshly mounted Canvas has
CanvasReset ==
  /\ isDrawing' = FALSE
  /\ currentAction' = Null
  /\ selectedImage' = Null
  /\ selectedImageIndex' = Null
  /\ selectedText' = Null
  /\ selectedTextIndex' = Null
  /\ isResizing' = FALSE
  /\ resizeHandle' = Null
  /\ isDragging' = FALSE
  /\ dragStart' = Null
  /\ activeTextInput' = Null
  /\ inputValue' = <<>>

\* JSON.parse(JSON.stringify(docs)) of the documents: the own fields of each
\* document are written and read back.  A snapshot holds strings, finite
\* numbers, null and arrays and objects of these, which JSON gives back as
\* they were
JsonCopy(docs) ==
  [i \in 1..Len(docs) |->
     [id |-> docs[i].id, history |-> docs[i].history,
      historyIndex |-> docs[i].historyIndex]]

\* what the save effect leaves in sessionStorage for the given state
Persisted(docs, curId, before) ==
  IF Len(docs) > 0 /\ ~IsNull(curId)
  THEN Some([documents |-> JsonCopy(docs), currentDocumentId |-> curId])
  ELSE before

\* the save effect, run after the handler's state updates when one of its
\* dependencies has changed
SaveEffect ==
  IF documents' = documents /\ currentDocumentId' = currentDocumentId
  THEN savedDocs' = savedDocs
  ELSE savedDocs' = Persisted(documents', currentDocumentId', savedDocs)

\* the CollaborationService singleton as constructed, and empty stores
CollabInit ==
  /\ shareId = Null
  /\ currentUser = Null
  /\ connectedUsers = <<>>
  /\ broadcastChannel = Null
  /\ openChannels = <<>>
  /\ storageListeners = 0
  /\ pollTimers = 0
  /\ sessionStore = {}
  /\ durableStore = {}
  /\ storedEvents = <<>>
  /\ posted = {}
  /\ notified = <<>>
  /\ setups = 0

Init ==
  /\ now = 0
  /\ documents = <<NewDocumentRecord(DocId(0, FALSE))>>
  /\ currentDocumentId = Some(DocId(0, FALSE))
  /\ tool = "pencil"
  /\ CanvasInit
  /\ lastOp = AppOp("mount")
  /\ CollabInit
  /\ savedDocs = Persisted(documents, currentDocumentId, Null)
  /\ imageDataCache = {}
  /\ pendingImage = Null

\* Canvas is rendered only while a document is current
CanvasMounted == ~IsNull(currentDocumentId)

WithinBounds(docs) ==
  /\ Len(docs) <= MaxDocs
  /\ \A i \in 1..Len(docs) : Len(docs[i].history) <= MaxHistory

DocIds(docs) == {docs[i].id : i \in 1..Len(docs)}

----------------------------------------------------------------------------
(* The effects Canvas runs when the tool prop changes to t (types.ts        *)
(* 306-335), on the documents and current id of the render they run in.     *)

ToolSave(t, docs, curId, active, value) ==
  LET idx == FindIndex(docs, curId)
      history == IF idx = 0 THEN <<>> ELSE docs[idx].history
      historyIndex == IF idx = 0 THEN -1 ELSE docs[idx].historyIndex
  IN IF t = "text"
     THEN SaveActiveText(docs, curId, history, historyIndex, Null, value)
     ELSE IF t = "image"
     THEN SaveActiveTextTwice(docs, curId, history, historyIndex, active, value)
     ELSE SaveActiveText(docs, curId, history, historyIndex, active, value)

\* the tool effects, given the documents the handler itself produced
ToolEffects(t, docs, curId) ==
  LET r == ToolSave(t, docs, curId, activeTextInput, inputValue) IN
  /\ documents' = r.docs
  /\ activeTextInput' = IF t = "text" THEN activeTextInput ELSE r.active
  /\ inputValue' = IF t = "text" THEN inputValue
                   ELSE InputAfter(activeTextInput, r.active, r.value)
  /\ IF t # "hand"
     THEN /\ selectedImage' = Null
          /\ selectedImageIndex' = Null
          /\ selectedText' = Null
     ELSE UNCHANGED <<selectedImage, selectedImageIndex, selectedText>>
  /\ UNCHANGED selectedTextIndex

----------------------------------------------------------------------------
(* App handlers *)

\* the values a call of Date.now() can return: the clock has advanced since
\* the last call, or it has not
DateNow == {t \in {now, now + 1} : t <= MaxClock}

\* Toolbar onToolChange = setTool, followed by the Canvas tool effects
HandleToolChange(t) ==
  /\ CanvasMounted
  /\ t # tool
  /\ tool' = t
  /\ ToolEffects(t, documents, currentDocumentId)
  /\ WithinBounds(documents')
  /\ lastOp' = AppOp("toolChange")
  /\ UNCHANGED collabVars
  /\ UNCHANGED <<currentDocumentId, now, gestureVars>>
  /\ SaveEffect
  /\ UNCHANGED <<imageDataCache, pendingImage>>

handleUndo ==
  /\ documents' = UndoDocs(documents, currentDocumentId, currentHistoryIndex)
  /\ lastOp' = Op("undo", Null)
  /\ UNCHANGED collabVars
  /\ UNCHANGED <<currentDocumentId, tool, now, canvasVars>>
  /\ SaveEffect
  /\ UNCHANGED <<imageDataCache, pendingImage>>

handleRedo ==
  /\ documents' = RedoDocs(documents, currentDocumentId, currentHistoryIndex,
                           currentHistory)
  /\ lastOp' = Op("redo", Null)
  /\ UNCHANGED collabVars
  /\ UNCHANGED <<currentDocumentId, tool, now, canvasVars>>
  /\ SaveEffect
  /\ UNCHANGED <<imageDataCache, pendingImage>>

handleSwitchDocument(docId) ==
  /\ docId \in DocIds(documents)
  /\ currentDocumentId' = Some(docId)
  /\ lastOp' = AppOp("switch")
  /\ UNCHANGED collabVars
  /\ UNCHANGED <<documents, tool, now, canvasVars>>
  /\ SaveEffect
  /\ UNCHANGED <<imageDataCache, pendingImage>>

handleNewDocument(t) ==
  LET newDocId == DocId(t, FALSE)
      docs == Append(documents, NewDocumentRecord(newDocId))
  IN
  /\ Len(documents) < MaxDocs
  /\ now' = t
  /\ currentDocumentId' = Some(newDocId)
  /\ tool' = "pencil"
  /\ IF ~CanvasMounted
     THEN documents' = docs /\ CanvasReset
     ELSE IF tool # "pencil"
     THEN ToolEffects("pencil", docs, Some(newDocId)) /\ UNCHANGED gestureVars
     ELSE documents' = docs /\ UNCHANGED canvasVars
  /\ WithinBounds(documents')
  /\ lastOp' = AppOp("new")
  /\ UNCHANGED collabVars
  /\ SaveEffect
  /\ UNCHANGED <<imageDataCache, pendingImage>>

handleDeleteDocument(docId) ==
  /\ docId \in DocIds(documents)
  /\ documents' = DeleteDocs(documents, docId)
  /\ currentDocumentId' = DeleteCurrent(documents, currentDocumentId, docId)
  /\ IF IsNull(currentDocumentId') /\ CanvasMounted
     THEN CanvasReset
     ELSE UNCHANGED canvasVars
  /\ lastOp' = AppOp("delete")
  /\ UNCHANGED collabVars
  /\ UNCHANGED <<tool, now>>
  /\ SaveEffect
  /\ UNCHANGED <<imageDataCache, pendingImage>>

handleCopyDocument(docId, t) ==
  /\ docId \in DocIds(documents)
  /\ Len(documents) < MaxDocs
  /\ now' = t
  /\ documents' = CopyDocs(documents, docId, t)
  /\ lastOp' = AppOp("copy")
  /\ UNCHANGED collabVars
  /\ UNCHANGED <<currentDocumentId, tool, canvasVars>>
  /\ SaveEffect
  /\ UNCHANGED <<imageDataCache, pendingImage>>

\* img_${Date.now()}_${random}: the random part makes the id new, the n-th
\* id minted since the page was loaded is n
NewImageId == Cardinality(imageDataCache) + 1

\* handleFileChange with a chosen file, through reader.onload and img.onload:
\* the image is committed and the tool set to hand
handleFileChange(size) ==
  /\ CanvasMounted
  /\ tool = "image"
  /\ tool' = "hand"
  /\ ToolEffects("hand",
                 ActionChange(documents, currentDocumentId,
                              ImageAction(Some(NewImageId), Pt(100, 100),
                                          size.width, size.height)),
                 currentDocumentId)
  /\ imageDataCache' = imageDataCache \cup {NewImageId}
  /\ UNCHANGED pendingImage
  /\ WithinBounds(documents')
  /\ lastOp' = AppOp("fileChange")
  /\ UNCHANGED collabVars
  /\ UNCHANGED <<currentDocumentId, now, gestureVars>>
  /\ SaveEffect

\* handleFileChange with no file (the dialog was cancelled)
handleFileCancel ==
  /\ CanvasMounted
  /\ tool = "image"
  /\ tool' = "hand"
  /\ ToolEffects("hand", documents, currentDocumentId)
  /\ WithinBounds(documents')
  /\ lastOp' = AppOp("fileCancel")
  /\ UNCHANGED collabVars
  /\ UNCHANGED <<currentDocumentId, now, gestureVars>>
  /\ SaveEffect
  /\ UNCHANGED <<imageDataCache, pendingImage>>

----------------------------------------------------------------------------
(* Canvas handlers (types.ts).  history and historyIndex are the props of   *)
(* the last render: currentHistory and currentHistoryIndex.                 *)

\* MapReplace that leaves every element in place and puts the new one behind
MapReplaceAppends(actions, i, newAction) ==
  Append(actions, newAction)

\* the current state's actions with index i (0-based) replaced
MapReplace(actions, i, newAction) ==
  [j \in 1..Len(actions) |-> IF j = i + 1 THEN newAction ELSE actions[j]]

\* onMouseDown of the canvas element, left button
startDrawing(point) ==
  LET saved == SaveActiveText(documents, currentDocumentId, currentHistory,
                              currentHistoryIndex, activeTextInput, inputValue)
      savedAgain == SaveActiveTextTwice(documents, currentDocumentId,
                                        currentHistory, currentHistoryIndex,
                                        activeTextInput, inputValue)
      imageHit == hitTestImage(currentHistory, currentHistoryIndex, point)
      textHit == textHitTest(currentHistory, currentHistoryIndex, point)
      actions == StateAt(currentHistory, currentHistoryIndex)
  IN
  /\ CanvasMounted
  /\ lastOp' = Op("startDrawing", Some(point))
  /\ UNCHANGED collabVars
  /\ UNCHANGED <<currentDocumentId, tool, now>>
  /\ IF tool = "hand" THEN
       /\ documents' = saved.docs
       /\ activeTextInput' = saved.active
       /\ inputValue' = InputAfter(activeTextInput, saved.active, saved.value)
       /\ UNCHANGED currentAction
       /\ IF imageHit >= 0 THEN
            LET hit == actions[imageHit + 1]
                handle == getResizeHandle(point, hit)
            IN /\ selectedImage' = Some(hit)
               /\ selectedImageIndex' = Some(imageHit)
               /\ selectedText' = Null
               /\ selectedTextIndex' = Null
               /\ isDrawing' = TRUE
               /\ IF ~IsNull(handle)
                  THEN /\ isResizing' = TRUE
                       /\ resizeHandle' = handle
                       /\ dragStart' = Some(point)
                       /\ UNCHANGED isDragging
                  ELSE /\ isDragging' = TRUE
                       /\ dragStart' =
                            Some(Pt(point.x - Val(hit.imageElement).position.x,
                                    point.y - Val(hit.imageElement).position.y))
                       /\ UNCHANGED <<isResizing, resizeHandle>>
          ELSE IF textHit >= 0 THEN
            LET hit == actions[textHit + 1] IN
               /\ selectedText' = Some(hit)
               /\ selectedTextIndex' = Some(textHit)
               /\ selectedImage' = Null
               /\ selectedImageIndex' = Null
               /\ isDrawing' = TRUE
               /\ isDragging' = TRUE
               /\ dragStart' =
                    Some(Pt(point.x - Val(hit.textElement).position.x,
                            point.y - Val(hit.textElement).position.y))
               /\ UNCHANGED <<isResizing, resizeHandle>>
          ELSE
               /\ selectedImage' = Null
               /\ selectedImageIndex' = Null
               /\ selectedText' = Null
               /\ selectedTextIndex' = Null
               /\ UNCHANGED <<isDrawing, isResizing, resizeHandle, isDragging,
                              dragStart>>
     ELSE IF tool \in DrawTools THEN
       /\ documents' = saved.docs
       /\ activeTextInput' = saved.active
       /\ inputValue' = InputAfter(activeTextInput, saved.active, saved.value)
       /\ isDrawing' = TRUE
       /\ currentAction' = Some(StrokeAction(tool, <<point>>))
       /\ selectedImage' = Null
       /\ selectedImageIndex' = Null
       /\ selectedText' = Null
       /\ UNCHANGED <<selectedTextIndex, isResizing, resizeHandle, isDragging,
                      dragStart>>
     ELSE IF tool = "text" THEN
       LET newActive == Some([position |-> point, initialValue |-> <<>>]) IN
       /\ documents' = savedAgain.docs
       /\ activeTextInput' = newActive
       /\ inputValue' = InputAfter(activeTextInput, newActive, savedAgain.value)
       /\ selectedImage' = Null
       /\ selectedImageIndex' = Null
       /\ selectedText' = Null
       /\ UNCHANGED <<selectedTextIndex, gestureVars>>
     ELSE
       /\ documents' = saved.docs
       /\ activeTextInput' = saved.active
       /\ inputValue' = InputAfter(activeTextInput, saved.active, saved.value)
       /\ UNCHANGED <<selectionVars, gestureVars>>
  /\ WithinBounds(documents')
  /\ SaveEffect
  /\ UNCHANGED <<imageDataCache, pendingImage>>

Max(a, b) == IF a >= b THEN a ELSE b

\* a resize step without the Math.max(10, ...) of types.ts 537-556
ResizedImageUnclamped(currentImage, handle, point) ==
  LET oppositeX == currentImage.position.x + currentImage.width
      oppositeY == currentImage.position.y + currentImage.height
      hasW == handle \in {"nw", "sw"}
      hasN == handle \in {"nw", "ne"}
  IN [currentImage EXCEPT
        !.position = Pt(IF hasW THEN point.x ELSE @.x,
                        IF hasN THEN point.y ELSE @.y),
        !.width = IF hasW THEN oppositeX - point.x
                  ELSE point.x - currentImage.position.x,
        !.height = IF hasN THEN oppositeY - point.y
                   ELSE point.y - currentImage.position.y]

\* the image a resize step makes of currentImage (draw, types.ts 533-561)
ResizedImage(currentImage, handle, point) ==
  LET oppositeX == currentImage.position.x + currentImage.width
      oppositeY == currentImage.position.y + currentImage.height
      hasE == handle \in {"ne", "se"}
      hasW == handle \in {"nw", "sw"}
      hasS == handle \in {"sw", "se"}
      hasN == handle \in {"nw", "ne"}
      newWidth == IF hasW THEN Max(MinSize, oppositeX - point.x)
                  ELSE IF hasE THEN Max(MinSize, point.x - currentImage.position.x)
                  ELSE currentImage.width
      newX == IF hasW THEN point.x ELSE currentImage.position.x
      newHeight == IF hasN THEN Max(MinSize, oppositeY - point.y)
                   ELSE IF hasS THEN Max(MinSize, point.y - currentImage.position.y)
                   ELSE currentImage.height
      newY == IF hasN THEN point.y ELSE currentImage.position.y
  IN [currentImage EXCEPT !.position = Pt(newX, newY),
                          !.width = newWidth, !.height = newHeight]

\* draw as the earlier Canvas dragged an image (components/canvas.tsx
\* 484-489): the element the snapshot holds is itself moved
drawInPlace(point) ==
  LET moved == [Val(selectedImage) EXCEPT !.imageElement =
                  Some([Val(@) EXCEPT !.position =
                          Pt(point.x - Val(dragStart).x,
                             point.y - Val(dragStart).y)])]
  IN
  /\ CanvasMounted
  /\ isDrawing /\ isDragging
  /\ tool = "hand"
  /\ ~IsNull(selectedImage) /\ ~IsNull(selectedImageIndex) /\ ~IsNull(dragStart)
  /\ selectedImage' = Some(moved)
  /\ documents' =
       [documents EXCEPT ![currentDocument].history[currentHistoryIndex + 1] =
          MapReplace(@, Val(selectedImageIndex), moved)]
  /\ lastOp' = Op("draw", Some(point))
  /\ UNCHANGED collabVars
  /\ UNCHANGED <<currentDocumentId, tool, now, textVars, gestureVars,
                 selectedImageIndex, selectedText, selectedTextIndex>>
  /\ SaveEffect
  /\ UNCHANGED <<imageDataCache, pendingImage>>

\* onMouseMove of the canvas element
draw(point) ==
  /\ CanvasMounted
  /\ isDrawing
  /\ lastOp' = Op("draw", Some(point))
  /\ UNCHANGED collabVars
  /\ UNCHANGED <<appVars, textVars, isDrawing, isResizing, resizeHandle,
                 isDragging, dragStart, selectedImageIndex, selectedTextIndex>>
  /\ IF tool = "hand" /\ ~IsNull(selectedImage)
        /\ ~IsNull(Val(selectedImage).imageElement)
     THEN
       LET currentImage == Val(Val(selectedImage).imageElement) IN
       /\ UNCHANGED <<selectedText, currentAction>>
       /\ IF isResizing /\ ~IsNull(resizeHandle) /\ ~IsNull(dragStart)
          THEN selectedImage' =
                 Some([Val(selectedImage) EXCEPT !.imageElement =
                         Some(ResizedImage(currentImage, Val(resizeHandle), point))])
          ELSE IF isDragging /\ ~IsNull(dragStart)
          THEN selectedImage' =
                 Some([Val(selectedImage) EXCEPT !.imageElement =
                         Some([currentImage EXCEPT !.position =
                                 Pt(point.x - Val(dragStart).x,
                                    point.y - Val(dragStart).y)])])
          ELSE UNCHANGED selectedImage
     ELSE IF tool = "hand" /\ ~IsNull(selectedText)
             /\ ~IsNull(Val(selectedText).textElement)
             /\ isDragging /\ ~IsNull(dragStart)
     THEN
       /\ selectedText' =
            Some([Val(selectedText) EXCEPT !.textElement =
                    Some([Val(Val(selectedText).textElement) EXCEPT !.position =
                            Pt(point.x - Val(dragStart).x,
                               point.y - Val(dragStart).y)])])
       /\ UNCHANGED <<selectedImage, currentAction>>
     ELSE IF ~IsNull(currentAction) /\ tool \in DrawTools
     THEN
       /\ Len(Val(currentAction).points) < MaxPoints
       /\ currentAction' =
            Some([Val(currentAction) EXCEPT !.points = Append(@, point)])
       /\ UNCHANGED <<selectedImage, selectedText>>
     ELSE UNCHANGED <<selectedImage, selectedText, currentAction>>
  /\ SaveEffect
  /\ UNCHANGED <<imageDataCache, pendingImage>>

\* the pointer position a pointer-up inherits from the event before it
PointerOf(op) ==
  IF op.op \in {"startDrawing", "draw"} THEN op.arg ELSE Null

\* stopDrawing as the earlier Canvas ran it for mouseleave
\* (components/canvas.tsx 533-546): the gesture state is reset and nothing is
\* committed
stopDrawingDiscards ==
  /\ CanvasMounted
  /\ lastOp' = Op("stopDrawing", PointerOf(lastOp))
  /\ isDrawing' = FALSE
  /\ isDragging' = FALSE
  /\ isResizing' = FALSE
  /\ dragStart' = Null
  /\ resizeHandle' = Null
  /\ currentAction' = Null
  /\ UNCHANGED collabVars
  /\ UNCHANGED <<appVars, textVars, selectionVars>>
  /\ SaveEffect
  /\ UNCHANGED <<imageDataCache, pendingImage>>

\* onMouseUp and onMouseLeave of the canvas element
stopDrawing ==
  LET actions == StateAt(currentHistory, currentHistoryIndex)
      hasState == HasState(currentHistory, currentHistoryIndex)
  IN
  /\ CanvasMounted
  /\ lastOp' = Op("stopDrawing", PointerOf(lastOp))
  /\ UNCHANGED collabVars
  /\ UNCHANGED <<currentDocumentId, tool, now, textVars, selectionVars>>
  /\ IF ~isDrawing /\ ~isResizing /\ ~isDragging THEN
       UNCHANGED <<documents, gestureVars>>
     ELSE IF isDrawing /\ ~IsNull(currentAction) THEN
       /\ documents' = StateChange(documents, currentDocumentId,
                                   Append(actions, Val(currentAction)))
       /\ currentAction' = Null
       /\ isDrawing' = FALSE
       /\ UNCHANGED <<isResizing, resizeHandle, isDragging, dragStart>>
     ELSE IF /\ tool = "hand" /\ (isDragging \/ isResizing)
             /\ ~IsNull(selectedImage) /\ ~IsNull(selectedImageIndex) THEN
       /\ documents' =
            IF hasState /\ Val(selectedImageIndex) >= 0
               /\ Val(selectedImageIndex) < Len(actions)
            THEN StateChange(documents, currentDocumentId,
                             MapReplace(actions, Val(selectedImageIndex),
                                        Val(selectedImage)))
            ELSE documents
       /\ isDrawing' = FALSE
       /\ isDragging' = FALSE
       /\ isResizing' = FALSE
       /\ dragStart' = Null
       /\ resizeHandle' = Null
       /\ currentAction' = Null
     ELSE IF /\ tool = "hand" /\ isDragging
             /\ ~IsNull(selectedText) /\ ~IsNull(selectedTextIndex) THEN
       /\ documents' =
            IF hasState /\ Val(selectedTextIndex) >= 0
               /\ Val(selectedTextIndex) < Len(actions)
            THEN StateChange(documents, currentDocumentId,
                             MapReplace(actions, Val(selectedTextIndex),
                                        Val(selectedText)))
            ELSE documents
       /\ isDrawing' = FALSE
       /\ isDragging' = FALSE
       /\ dragStart' = Null
       /\ currentAction' = Null
       /\ UNCHANGED <<isResizing, resizeHandle>>
     ELSE
       /\ isDrawing' = FALSE
       /\ isDragging' = FALSE
       /\ isResizing' = FALSE
       /\ dragStart' = Null
       /\ resizeHandle' = Null
       /\ currentAction' = Null
       /\ UNCHANGED documents
  /\ WithinBounds(documents')
  /\ SaveEffect
  /\ UNCHANGED <<imageDataCache, pendingImage>>

\* the user edits the content of the text input
TypeText(value) ==
  /\ CanvasMounted
  /\ ~IsNull(activeTextInput)
  /\ value # inputValue
  /\ inputValue' = value
  /\ lastOp' = Op("type", Null)
  /\ UNCHANGED collabVars
  /\ UNCHANGED <<appVars, gestureVars, selectionVars, activeTextInput>>
  /\ SaveEffect
  /\ UNCHANGED <<imageDataCache, pendingImage>>

\* handleTextInput, key Enter
handleTextInputEnter ==
  LET saved == SaveActiveText(documents, currentDocumentId, currentHistory,
                              currentHistoryIndex, activeTextInput, inputValue)
  IN
  /\ CanvasMounted
  /\ ~IsNull(activeTextInput)
  /\ documents' = saved.docs
  /\ activeTextInput' = saved.active
  /\ inputValue' = InputAfter(activeTextInput, saved.active, saved.value)
  /\ WithinBounds(documents')
  /\ lastOp' = Op("enter", Null)
  /\ UNCHANGED collabVars
  /\ UNCHANGED <<currentDocumentId, tool, now, gestureVars, selectionVars>>
  /\ SaveEffect
  /\ UNCHANGED <<imageDataCache, pendingImage>>

\* handleTextInput with the Escape key handled as Enter is
handleTextInputEscapeCommits ==
  LET saved == SaveActiveText(documents, currentDocumentId, currentHistory,
                              currentHistoryIndex, activeTextInput, inputValue)
  IN
  /\ CanvasMounted
  /\ ~IsNull(activeTextInput)
  /\ documents' = saved.docs
  /\ activeTextInput' = saved.active
  /\ inputValue' = InputAfter(activeTextInput, saved.active, saved.value)
  /\ lastOp' = Op("escape", activeTextInput)
  /\ UNCHANGED collabVars
  /\ UNCHANGED <<currentDocumentId, tool, now, gestureVars, selectionVars>>
  /\ SaveEffect
  /\ UNCHANGED <<imageDataCache, pendingImage>>

\* handleTextInput, key Escape; lastOp keeps the editor that was closed
handleTextInputEscape ==
  /\ CanvasMounted
  /\ ~IsNull(activeTextInput)
  /\ activeTextInput' = Null
  /\ inputValue' = <<>>
  /\ lastOp' = Op("escape", activeTextInput)
  /\ UNCHANGED collabVars
  /\ UNCHANGED <<appVars, gestureVars, selectionVars>>
  /\ SaveEffect
  /\ UNCHANGED <<imageDataCache, pendingImage>>

\* onDoubleClick of the canvas element; the browser sends it after the
\* pointer-up of a click at the same position
handleDoubleClick(clickPos) ==
  LET saved == SaveActiveText(documents, currentDocumentId, currentHistory,
                              currentHistoryIndex, activeTextInput, inputValue)
      hasState == HasState(currentHistory, currentHistoryIndex)
      actions == StateAt(currentHistory, currentHistoryIndex)
      textHit == textHitTest(currentHistory, currentHistoryIndex, clickPos)
      imageHit == hitTestImage(currentHistory, currentHistoryIndex, clickPos)
  IN
  /\ CanvasMounted
  /\ lastOp.op = "stopDrawing"
  /\ lastOp.arg = Some(clickPos)
  /\ lastOp' = Op("doubleClick", Some(clickPos))
  /\ UNCHANGED collabVars
  /\ UNCHANGED <<currentDocumentId, tool, now, gestureVars, selectedTextIndex>>
  /\ IF tool # "hand" THEN
       UNCHANGED <<documents, textVars, selectedImage, selectedImageIndex,
                   selectedText>>
     ELSE
       /\ documents' = saved.docs
       /\ IF ~hasState THEN
            /\ activeTextInput' = saved.active
            /\ inputValue' = InputAfter(activeTextInput, saved.active, saved.value)
            /\ UNCHANGED <<selectedImage, selectedImageIndex, selectedText>>
          ELSE IF textHit >= 0 THEN
            LET hit == actions[textHit + 1]
                newActive == Some([position |-> Val(hit.textElement).position,
                                   initialValue |-> Val(hit.textElement).text])
            IN /\ activeTextInput' = newActive
               /\ inputValue' = InputAfter(activeTextInput, newActive, saved.value)
               /\ selectedText' = Some(hit)
               /\ selectedImage' = Null
               /\ selectedImageIndex' = Null
          ELSE
            /\ activeTextInput' = saved.active
            /\ inputValue' = InputAfter(activeTextInput, saved.active, saved.value)
            /\ IF imageHit >= 0
               THEN /\ selectedImage' = Some(actions[imageHit + 1])
                    /\ selectedImageIndex' = Some(imageHit)
                    /\ selectedText' = Null
               ELSE UNCHANGED <<selectedImage, selectedImageIndex, selectedText>>
  /\ WithinBounds(documents')
  /\ SaveEffect
  /\ UNCHANGED <<imageDataCache, pendingImage>>

----------------------------------------------------------------------------
(* CollaborationService (src/src/lib/collaboration.ts), the singleton of    *)
(* this browsing context, with the two storage scopes and the peers of      *)
(* other contexts as its environment.                                        *)
(*                                                                           *)
(* Ids.  generateUserId and generateShareId draw 9 and 16 random base-36    *)
(* characters; they are modelled as fresh: the n-th id made here is n.      *)
(* Peers have the ids of PeerIds, and PeerShare is the share id of a        *)
(* session a peer has generated.                                             *)

PeerIds == {"p1", "p2"}
PeerShare == 0
\* the share ids in use: the peer's and those generated here
ShareIds == PeerShare..MaxSetups
KeepCount == 10
PollWindow == 10000

EventTypes == {"user_join", "user_leave", "draw"}

\* generateUserId: the n-th id made in this context, and the id of peer p
UserId(n) == [context |-> "here", n |-> n]
PeerId(p) == [context |-> p, n |-> 0]

Host(n) == [id |-> UserId(n), name |-> "Host"]
Guest(n) == [id |-> UserId(n), name |-> "Guest"]
PeerUser(p) == [id |-> PeerId(p), name |-> "Guest"]

\* a CollaborationEvent
Envelope(type, user, t) ==
  [type |-> type, userId |-> user.id, data |-> user, timestamp |-> t]

\* the localStorage entry of an event: key
\* opencanvas_collab_event_${shareId}_${Date.now()}_${Math.random()} and value
StoredEvent(sid, event, t) ==
  [shareId |-> sid, keyTime |-> t, event |-> event, timestamp |-> t]

\* 'share_' + randomPart, as the fields split('_') makes of it
ShareIdFields(sid) == <<[text |-> "share"], [text |-> ToString(sid)]>>

\* key.split('_') of an event key; numeric fields carry their number
KeyFields(entry) ==
  <<[text |-> "opencanvas"], [text |-> "collab"], [text |-> "event"]>>
    \o ShareIdFields(entry.shareId)
    \o <<[number |-> entry.keyTime], [text |-> "random"]>>

\* parseInt(a.split('_')[3]) || 0
KeySortTime(entry) ==
  LET field == KeyFields(entry)[4] IN
  IF "number" \in DOMAIN field THEN field.number ELSE 0

\* the service fields and the stores as one value, at the start of a step:
\* no list has been passed to a listener yet
Service ==
  [shareId |-> shareId, currentUser |-> currentUser,
   connectedUsers |-> connectedUsers, broadcastChannel |-> broadcastChannel,
   openChannels |-> openChannels, storageListeners |-> storageListeners,
   pollTimers |-> pollTimers, sessionStore |-> sessionStore,
   durableStore |-> durableStore, storedEvents |-> storedEvents,
   posted |-> posted, notified |-> <<>>, setups |-> setups]

SetService(s) ==
  /\ shareId' = s.shareId
  /\ currentUser' = s.currentUser
  /\ connectedUsers' = s.connectedUsers
  /\ broadcastChannel' = s.broadcastChannel
  /\ openChannels' = s.openChannels
  /\ storageListeners' = s.storageListeners
  /\ pollTimers' = s.pollTimers
  /\ sessionStore' = s.sessionStore
  /\ durableStore' = s.durableStore
  /\ storedEvents' = s.storedEvents
  /\ posted' = s.posted
  /\ notified' = s.notified
  /\ setups' = s.setups

\* what lastOp records of a step of the service or of its environment
CollabOp(name, arg) == [op |-> name, arg |-> arg, cursor |-> -1, length |-> 0]

----------------------------------------------------------------------------
(* The peer map: a Map keeps its keys in insertion order *)

MapHas(m, k) == \E i \in 1..Len(m) : m[i].key = k

MapSetAppends(m, k, v) == Append(m, [key |-> k, value |-> v])

\* Map.prototype.set
MapSet(m, k, v) ==
  IF MapHas(m, k)
  THEN [i \in 1..Len(m) |-> IF m[i].key = k THEN [key |-> k, value |-> v] ELSE m[i]]
  ELSE Append(m, [key |-> k, value |-> v])

\* Map.prototype.delete
MapDelete(m, k) == SelectSeq(m, LAMBDA e : e.key # k)

\* getConnectedUsers: Array.from(this.connectedUsers.values())
MapValues(m) == [i \in 1..Len(m) |-> m[i].value]

UsersListPeersOnly(s) == MapValues(s.connectedUsers)

\* triggerUsersChange: the list handed to the onUsersChange callbacks
UsersList(s) ==
  MapValues(s.connectedUsers)
    \o (IF IsNull(s.currentUser) THEN <<>> ELSE <<Val(s.currentUser)>>)

triggerUsersChange(s) == [s EXCEPT !.notified = Append(@, UsersList(s))]

handleCollaborationEvent(s, event) ==
  IF ~IsNull(s.currentUser) /\ event.userId = Val(s.currentUser).id THEN s
  ELSE IF event.type = "user_join"
  THEN triggerUsersChange(
         [s EXCEPT !.connectedUsers = MapSet(@, event.userId, event.data)])
  ELSE IF event.type = "user_leave"
  THEN triggerUsersChange(
         [s EXCEPT !.connectedUsers = MapDelete(@, event.userId)])
  ELSE s

\* handleCollaborationEvent for each event of a sequence, in its order
RECURSIVE HandleAll(_, _)
HandleAll(s, events) ==
  IF events = <<>> THEN s
  ELSE HandleAll(handleCollaborationEvent(s, Head(events)), Tail(events))

----------------------------------------------------------------------------
(* Publishing *)

\* the indices of the entries whose key starts with the event prefix of sid
EventKeys(events, sid) == {i \in 1..Len(events) : events[i].shareId = sid}

\* cleanupOldEvents.  Object.keys(localStorage) lists the keys in an order
\* the browser chooses and the sort is stable, so the entries kept are any
\* KeepCount of them that the comparator does not rank behind a removed one.
KeepChoices(events, sid) ==
  LET keys == EventKeys(events, sid)
      n == IF Cardinality(keys) < KeepCount THEN Cardinality(keys) ELSE KeepCount
  IN {kept \in SUBSET keys :
        /\ Cardinality(kept) = n
        /\ \A k \in kept, r \in keys \ kept :
             KeySortTime(events[k]) >= KeySortTime(events[r])}

\* the entries left when those of sid outside kept are removed
RECURSIVE RemoveOthers(_, _, _, _)
RemoveOthers(events, sid, kept, i) ==
  IF i > Len(events) THEN <<>>
  ELSE (IF events[i].shareId # sid \/ i \in kept THEN <<events[i]>> ELSE <<>>)
         \o RemoveOthers(events, sid, kept, i + 1)

cleanupOldEventsKeepsAll(s, kept) == s

cleanupOldEvents(s, kept) ==
  IF IsNull(s.shareId) THEN s
  ELSE [s EXCEPT !.storedEvents = RemoveOthers(@, Val(s.shareId), kept, 1)]

\* broadcastEvent at clock t; writable is whether localStorage.setItem
\* succeeds (it throws when the quota is exceeded), kept is what the cleanup
\* keeps
broadcastEvent(s, type, t, writable, kept) ==
  IF IsNull(s.currentUser) \/ IsNull(s.shareId) THEN s
  ELSE IF ~writable THEN s
  ELSE
    LET fullEvent == Envelope(type, Val(s.currentUser), t)
        written == [s EXCEPT !.storedEvents =
                      Append(@, StoredEvent(Val(s.shareId), fullEvent, t))]
        cleaned == cleanupOldEvents(written, kept)
    IN IF IsNull(cleaned.broadcastChannel) THEN cleaned
       ELSE [cleaned EXCEPT !.posted =
               @ \cup {[channel |-> Val(cleaned.broadcastChannel),
                        event |-> fullEvent]}]

\* the choices of kept a broadcastEvent of s has
KeepChoicesAfterWrite(s, type, t) ==
  IF IsNull(s.currentUser) \/ IsNull(s.shareId) THEN {{}}
  ELSE KeepChoices(
         Append(s.storedEvents,
                StoredEvent(Val(s.shareId),
                            Envelope(type, Val(s.currentUser), t), t)),
         Val(s.shareId))

----------------------------------------------------------------------------
(* Sessions *)

setupBroadcastChannel(s) ==
  IF IsNull(s.shareId) THEN s
  ELSE [s EXCEPT !.broadcastChannel = s.shareId,
                 !.openChannels = Append(@, Val(s.shareId))]

setupStorageListener(s) ==
  [s EXCEPT !.storageListeners = @ + 1, !.pollTimers = @ + 1]

setupCommunication(s, t, writable, kept) ==
  IF IsNull(s.shareId) THEN s
  ELSE broadcastEvent(setupStorageListener(setupBroadcastChannel(s)),
                      "user_join", t, writable, kept)

\* generateShareLink up to its second setItem
ShareStarted(s) ==
  [s EXCEPT !.setups = @ + 1,
            !.shareId = Some(s.setups + 1),
            !.currentUser = Some(Host(s.setups + 1)),
            !.sessionStore = @ \cup {s.setups + 1}]

\* generateShareLink(documentId); with the durable store not writable the
\* second setItem throws and the call ends there
generateShareLinkResult(s, t, writable, kept) ==
  IF ~writable THEN ShareStarted(s)
  ELSE setupCommunication(
         [ShareStarted(s) EXCEPT !.durableStore = @ \cup {s.setups + 1}],
         t, writable, kept)

\* joinSharedSession up to the try block
JoinStarted(s, sid) ==
  [s EXCEPT !.setups = @ + 1,
            !.shareId = Some(sid),
            !.currentUser = Some(Guest(s.setups + 1))]

\* what joinSharedSession(sid) returns
joinReturns(s, sid, writable) ==
  (sid \in s.durableStore \/ sid \in s.sessionStore) /\ writable

joinSharedSessionResult(s, sid, t, writable, kept) ==
  IF ~joinReturns(s, sid, writable) THEN JoinStarted(s, sid)
  ELSE setupCommunication(
         [JoinStarted(s, sid) EXCEPT !.durableStore = @ \cup {sid},
                                     !.sessionStore = @ \cup {sid}],
         t, writable, kept)

\* BroadcastChannel.close() of the object this.broadcastChannel refers to,
\* the one opened last under its name
CloseLast(channels, name) ==
  LET last == CHOOSE i \in 1..Len(channels) :
                /\ channels[i] = name
                /\ \A j \in (i + 1)..Len(channels) : channels[j] # name
  IN SubSeq(channels, 1, last - 1) \o SubSeq(channels, last + 1, Len(channels))

\* disconnect after its broadcastEvent
Released(s) ==
  [s EXCEPT !.openChannels =
              IF IsNull(s.broadcastChannel) THEN @
              ELSE CloseLast(@, Val(s.broadcastChannel)),
            !.broadcastChannel = Null,
            !.connectedUsers = <<>>,
            !.shareId = Null,
            !.currentUser = Null]

disconnectResult(s, t, writable, kept) ==
  Released(broadcastEvent(s, "user_leave", t, writable, kept))

isInSharedSession == ~IsNull(shareId)

----------------------------------------------------------------------------
(* Service calls of this context *)

UnchangedApp ==
  UNCHANGED <<documents, currentDocumentId, tool, canvasVars, storeVars>>

generateShareLink(t, writable) ==
  /\ setups < MaxSetups
  /\ \E kept \in KeepChoicesAfterWrite(ShareStarted(Service), "user_join", t) :
       SetService(generateShareLinkResult(Service, t, writable, kept))
  /\ now' = t
  /\ lastOp' = CollabOp("generateShareLink", Some([writable |-> writable]))
  /\ UnchangedApp

joinSharedSession(sid, t, writable) ==
  /\ setups < MaxSetups
  /\ \E kept \in KeepChoicesAfterWrite(JoinStarted(Service, sid), "user_join", t) :
       SetService(joinSharedSessionResult(Service, sid, t, writable, kept))
  /\ now' = t
  /\ lastOp' = CollabOp("joinSharedSession",
                        Some([shareId |-> sid, writable |-> writable,
                              returns |-> joinReturns(Service, sid, writable)]))
  /\ UnchangedApp

\* broadcastEvent called by the application with a drawing event
publishEvent(t, writable) ==
  /\ \E kept \in KeepChoicesAfterWrite(Service, "draw", t) :
       SetService(broadcastEvent(Service, "draw", t, writable, kept))
  /\ now' = t
  /\ lastOp' = CollabOp("broadcastEvent",
                        Some([writable |-> writable,
                              stored |-> IF IsNull(shareId) THEN 0
                                         ELSE Cardinality(EventKeys(storedEvents,
                                                                    Val(shareId)))]))
  /\ UnchangedApp

disconnect(t, writable) ==
  /\ \E kept \in KeepChoicesAfterWrite(Service, "user_leave", t) :
       SetService(disconnectResult(Service, t, writable, kept))
  /\ now' = t
  /\ lastOp' = CollabOp("disconnect", Some([writable |-> writable]))
  /\ UnchangedApp

----------------------------------------------------------------------------
(* The environment: peers in other contexts, and the three ways their       *)
(* envelopes reach this context                                              *)

\* a peer has generated a share link: its record is in localStorage
PeerShares ==
  /\ PeerShare \notin durableStore
  /\ durableStore' = durableStore \cup {PeerShare}
  /\ lastOp' = CollabOp("peerShares", Null)
  /\ notified' = <<>>
  /\ UNCHANGED <<appVars, canvasVars, storeVars, shareId, currentUser, connectedUsers,
                 broadcastChannel, openChannels, storageListeners, pollTimers,
                 sessionStore, storedEvents, posted, setups>>

\* broadcastEvent run by peer p in its own context, in a session sid
PeerPublish(sid, type, p, t) ==
  LET entry == StoredEvent(sid, Envelope(type, PeerUser(p), t), t)
      written == Append(storedEvents, entry)
  IN
  /\ sid \in durableStore
  /\ Cardinality({i \in 1..Len(storedEvents) :
                    storedEvents[i].event.userId.context \in PeerIds}) < MaxEvents
  /\ \E kept \in KeepChoices(written, sid) :
       storedEvents' = RemoveOthers(written, sid, kept, 1)
  /\ now' = t
  /\ notified' = <<>>
  /\ lastOp' = CollabOp("peerPublish", Some(entry))
  /\ UNCHANGED <<documents, currentDocumentId, tool, canvasVars, storeVars, shareId,
                 currentUser, connectedUsers, broadcastChannel, openChannels,
                 storageListeners, pollTimers, sessionStore, durableStore,
                 posted, setups>>

FromPeer(entry) == entry.event.userId.context \in PeerIds

\* what lastOp records of a delivery: the entry, and whether the peer map
\* held its sender when the delivery began
Delivery(entry) ==
  Some([entry |-> entry, known |-> MapHas(connectedUsers, entry.event.userId)])

\* the message listener of a BroadcastChannel of this context receives the
\* envelope a peer posted on the channel of that name
ChannelMessage(i) ==
  /\ FromPeer(storedEvents[i])
  /\ \E c \in 1..Len(openChannels) : openChannels[c] = storedEvents[i].shareId
  /\ SetService(handleCollaborationEvent(Service, storedEvents[i].event))
  /\ lastOp' = CollabOp("channelMessage", Delivery(storedEvents[i]))
  /\ UNCHANGED appVars
  /\ UNCHANGED canvasVars
  /\ UNCHANGED storeVars

\* the 'storage' listeners of this context run for an entry a peer wrote
StorageEvent(i) ==
  /\ FromPeer(storedEvents[i])
  /\ storageListeners > 0
  /\ SetService(IF Some(storedEvents[i].shareId) = shareId
                THEN handleCollaborationEvent(Service, storedEvents[i].event)
                ELSE Service)
  /\ lastOp' = CollabOp("storageEvent", Delivery(storedEvents[i]))
  /\ UNCHANGED appVars
  /\ UNCHANGED canvasVars
  /\ UNCHANGED storeVars

\* the orders in which forEach can visit a set of keys
Orders(keys) ==
  {f \in [1..Cardinality(keys) -> keys] :
     \A a, b \in 1..Cardinality(keys) : a # b => f[a] # f[b]}

\* pollForEvents at clock t, visiting the keys in the given order
pollForEvents(s, t, order) ==
  IF IsNull(s.shareId) THEN s
  ELSE LET recent == SelectSeq(order,
                       LAMBDA i : s.storedEvents[i].timestamp > t - PollWindow)
       IN HandleAll(s, [k \in 1..Len(recent) |-> s.storedEvents[recent[k]].event])

\* a tick of one of the setInterval timers
PollTick(t) ==
  /\ pollTimers > 0
  /\ \E order \in Orders(IF IsNull(shareId) THEN {}
                         ELSE EventKeys(storedEvents, Val(shareId))) :
       SetService(pollForEvents(Service, t, order))
  /\ now' = t
  /\ lastOp' = CollabOp("pollTick", Null)
  /\ UnchangedApp

----------------------------------------------------------------------------
(* Canvas: its own image input (types.ts 217-274), which the image-tool      *)
(* effect clicks next to the file input of App                                *)

CanvasWidth == 1920
CanvasHeight == 1080
MaxImageWidth == 300

\* img.onload of the Canvas input: the image is scaled to at most 300 wide,
\* centred, committed without an imageId, selected, and the tool set to hand
imageInputChange(size) ==
  LET scaled == IF size.width <= MaxImageWidth THEN size
                ELSE [width |-> MaxImageWidth,
                      height |-> (size.height * MaxImageWidth) \div size.width]
      newAction == ImageAction(Null,
                               Pt((CanvasWidth - scaled.width) \div 2,
                                  (CanvasHeight - scaled.height) \div 2),
                               scaled.width, scaled.height)
      committed == StateChange(documents, currentDocumentId,
                               Append(StateAt(currentHistory, currentHistoryIndex),
                                      newAction))
      r == ToolSave("hand", committed, currentDocumentId, activeTextInput,
                    inputValue)
  IN
  /\ CanvasMounted
  /\ tool = "image"
  /\ tool' = "hand"
  /\ documents' = r.docs
  /\ activeTextInput' = r.active
  /\ inputValue' = InputAfter(activeTextInput, r.active, r.value)
  /\ selectedImage' = Some(newAction)
  /\ WithinBounds(documents')
  /\ lastOp' = AppOp("imageInputChange")
  /\ UNCHANGED collabVars
  /\ UNCHANGED <<currentDocumentId, now, gestureVars, selectedImageIndex,
                 selectedText, selectedTextIndex>>
  /\ SaveEffect
  /\ UNCHANGED <<imageDataCache, pendingImage>>

\* onchange of the Canvas input with a file: reader.readAsDataURL is started.
\* reader.onload and img.onload are closures of the render the input was made
\* in: they hold its history[historyIndex] and its onStateChange, which holds
\* its currentDocumentId.  One file is in flight at a time.
imageInputChosen(size) ==
  /\ CanvasMounted
  /\ tool = "image"
  /\ IsNull(pendingImage)
  /\ pendingImage' =
       Some([size |-> size,
             actions |-> StateAt(currentHistory, currentHistoryIndex),
             currentDocumentId |-> currentDocumentId])
  /\ lastOp' = AppOp("imageInputChosen")
  /\ UNCHANGED collabVars
  /\ UNCHANGED <<appVars, canvasVars, savedDocs, imageDataCache>>

\* reader.onload and then img.onload of the file in flight: the image is
\* appended to the snapshot of the closure and committed through the
\* onStateChange of the closure, selected, and the tool set to hand
imageInputLoaded ==
  LET pending == Val(pendingImage)
      scaled == IF pending.size.width <= MaxImageWidth THEN pending.size
                ELSE [width |-> MaxImageWidth,
                      height |-> (pending.size.height * MaxImageWidth)
                                   \div pending.size.width]
      newAction == ImageAction(Null,
                               Pt((CanvasWidth - scaled.width) \div 2,
                                  (CanvasHeight - scaled.height) \div 2),
                               scaled.width, scaled.height)
      committed == StateChange(documents, pending.currentDocumentId,
                               Append(pending.actions, newAction))
      r == ToolSave("hand", committed, currentDocumentId, activeTextInput,
                    inputValue)
  IN
  /\ ~IsNull(pendingImage)
  /\ CanvasMounted
  /\ pendingImage' = Null
  /\ tool' = "hand"
  /\ IF tool = "hand"
     THEN documents' = committed /\ UNCHANGED textVars
     ELSE /\ documents' = r.docs
          /\ activeTextInput' = r.active
          /\ inputValue' = InputAfter(activeTextInput, r.active, r.value)
  /\ selectedImage' = Some(newAction)
  /\ WithinBounds(documents')
  /\ lastOp' = Op("imageInputLoaded", Null)
  /\ UNCHANGED collabVars
  /\ UNCHANGED <<currentDocumentId, now, gestureVars, selectedImageIndex,
                 selectedText, selectedTextIndex>>
  /\ SaveEffect
  /\ UNCHANGED imageDataCache

----------------------------------------------------------------------------
(* Canvas: the context menu (types.ts 726-787, 866-899)                      *)

\* onContextMenu of the Canvas root, by a right click on the canvas element
\* (startDrawing returns at once for that button): the open editor is saved,
\* the element under the pointer is selected, and on empty space the
\* selection stays as it is; then the menu opens
handleContextMenu(point) ==
  LET saved == SaveActiveText(documents, currentDocumentId, currentHistory,
                              currentHistoryIndex, activeTextInput, inputValue)
      actions == StateAt(currentHistory, currentHistoryIndex)
      imageHit == hitTestImage(currentHistory, currentHistoryIndex, point)
      textHit == textHitTest(currentHistory, currentHistoryIndex, point)
  IN
  /\ CanvasMounted
  /\ documents' = saved.docs
  /\ activeTextInput' = saved.active
  /\ inputValue' = InputAfter(activeTextInput, saved.active, saved.value)
  /\ IF imageHit >= 0
     THEN /\ selectedImage' = Some(actions[imageHit + 1])
          /\ selectedImageIndex' = Some(imageHit)
          /\ selectedText' = Null
          /\ UNCHANGED selectedTextIndex
     ELSE IF textHit >= 0
     THEN /\ selectedText' = Some(actions[textHit + 1])
          /\ selectedTextIndex' = Some(textHit)
          /\ selectedImage' = Null
          /\ selectedImageIndex' = Null
     ELSE UNCHANGED selectionVars
  /\ WithinBounds(documents')
  /\ lastOp' = Op("contextMenu", Some(point))
  /\ UNCHANGED collabVars
  /\ UNCHANGED <<currentDocumentId, tool, now, gestureVars>>
  /\ SaveEffect
  /\ UNCHANGED <<imageDataCache, pendingImage>>

\* the menu item Delete Image, which the open menu shows while an image is
\* selected
handleDeleteImage ==
  LET actions == StateAt(currentHistory, currentHistoryIndex)
      newActions == SelectSeq([j \in 1..Len(actions) |-> [at |-> j - 1, action |-> actions[j]]],
                              LAMBDA e : e.at # Val(selectedImageIndex))
  IN
  /\ CanvasMounted
  /\ lastOp.op = "contextMenu"
  /\ ~IsNull(selectedImage)
  /\ IF ~IsNull(selectedImageIndex)
        /\ HasState(currentHistory, currentHistoryIndex)
     THEN /\ documents' =
               StateChange(documents, currentDocumentId,
                           [j \in 1..Len(newActions) |-> newActions[j].action])
          /\ selectedImage' = Null
          /\ selectedImageIndex' = Null
     ELSE UNCHANGED <<documents, selectedImage, selectedImageIndex>>
  /\ WithinBounds(documents')
  /\ lastOp' = Op("deleteImage", Null)
  /\ UNCHANGED collabVars
  /\ UNCHANGED <<currentDocumentId, tool, now, gestureVars, textVars,
                 selectedText, selectedTextIndex>>
  /\ SaveEffect
  /\ UNCHANGED <<imageDataCache, pendingImage>>

\* the menu item Delete Text, which the open menu shows while a text is
\* selected.  findIndex(action => action === selectedText) compares object
\* identities, which is modelled on the values: the selected element is the
\* object a hit test took from a snapshot, snapshots share the objects of the
\* elements they leave alone, and only a pointer-move makes a new object of
\* the selected element (with the same value when it moves the element onto
\* its old position, a case the value comparison does not tell apart)
handleDeleteText ==
  LET actions == StateAt(currentHistory, currentHistoryIndex)
      found == {j \in 1..Len(actions) : actions[j] = Val(selectedText)}
      textIndex == IF found = {} THEN 0
                   ELSE CHOOSE j \in found : \A k \in found : j <= k
  IN
  /\ CanvasMounted
  /\ lastOp.op = "contextMenu"
  /\ ~IsNull(selectedText)
  /\ IF ~HasState(currentHistory, currentHistoryIndex)
     THEN UNCHANGED <<documents, selectedText>>
     ELSE /\ selectedText' = Null
          /\ documents' =
               IF textIndex = 0 THEN documents
               ELSE StateChange(documents, currentDocumentId,
                                SubSeq(actions, 1, textIndex - 1)
                                  \o SubSeq(actions, textIndex + 1, Len(actions)))
  /\ WithinBounds(documents')
  /\ lastOp' = Op("deleteText", Null)
  /\ UNCHANGED collabVars
  /\ UNCHANGED <<currentDocumentId, tool, now, gestureVars, textVars,
                 selectedImage, selectedImageIndex, selectedTextIndex>>
  /\ SaveEffect
  /\ UNCHANGED <<imageDataCache, pendingImage>>

----------------------------------------------------------------------------
(* Reload of the page: every module and component state starts again, the    *)
(* two storages keep what they hold                                           *)

\* the load effect of App (App.tsx 203-224) on what the save effect left
Reload ==
  /\ ~IsNull(savedDocs)
  /\ documents' = Val(savedDocs).documents
  /\ currentDocumentId' = Val(savedDocs).currentDocumentId
  /\ tool' = "pencil"
  /\ CanvasReset
  /\ imageDataCache' = {}
  /\ pendingImage' = Null
  /\ shareId' = Null
  /\ currentUser' = Null
  /\ connectedUsers' = <<>>
  /\ broadcastChannel' = Null
  /\ openChannels' = <<>>
  /\ storageListeners' = 0
  /\ pollTimers' = 0
  /\ posted' = {}
  /\ notified' = <<>>
  /\ lastOp' = AppOp("reload")
  /\ UNCHANGED <<now, sessionStore, durableStore, storedEvents, setups>>
  /\ SaveEffect

----------------------------------------------------------------------------

Next ==
  \/ \E t \in Tools : HandleToolChange(t)
  \/ handleUndo
  \/ handleRedo
  \/ \E docId \in DocIds(documents) : handleSwitchDocument(docId)
  \/ \E t \in DateNow : handleNewDocument(t)
  \/ \E docId \in DocIds(documents) : handleDeleteDocument(docId)
  \/ \E docId \in DocIds(documents), t \in DateNow : handleCopyDocument(docId, t)
  \/ \E size \in NaturalSizes : handleFileChange(size)
  \/ handleFileCancel
  \/ \E point \in Points : startDrawing(point)
  \/ \E point \in Points : draw(point)
  \/ stopDrawing
  \/ \E value \in Texts : TypeText(value)
  \/ handleTextInputEnter
  \/ handleTextInputEscape
  \/ \E clickPos \in Points : handleDoubleClick(clickPos)
  \/ \E t \in DateNow, writable \in BOOLEAN : generateShareLink(t, writable)
  \/ \E sid \in ShareIds, t \in DateNow, writable \in BOOLEAN :
       joinSharedSession(sid, t, writable)
  \/ \E t \in DateNow, writable \in BOOLEAN : publishEvent(t, writable)
  \/ \E t \in DateNow, writable \in BOOLEAN : disconnect(t, writable)
  \/ PeerShares
  \/ \E sid \in ShareIds, type \in EventTypes, p \in PeerIds, t \in DateNow :
       PeerPublish(sid, type, p, t)
  \/ \E i \in 1..Len(storedEvents) : ChannelMessage(i)
  \/ \E i \in 1..Len(storedEvents) : StorageEvent(i)
  \/ \E t \in DateNow : PollTick(t)
  \/ \E size \in NaturalSizes : imageInputChange(size)
  \/ Reload
  \/ \E point \in Points : handleContextMenu(point)
  \/ \E size \in NaturalSizes : imageInputChosen(size)
  \/ imageInputLoaded
  \/ handleDeleteImage
  \/ handleDeleteText

Spec == Init /\ [][Next]_vars

----------------------------------------------------------------------------
(* Scenarios.  Each is the system above with the environment narrowed to    *)
(* some of its handlers and inputs, so that the reachable states can be     *)
(* enumerated.                                                              *)

\* The history store of one document under pencil strokes, undo and redo.
NextHistoryStore ==
  \/ handleUndo
  \/ handleRedo
  \/ \E point \in {Pt(0, 0), Pt(10, 10)} : startDrawing(point)
  \/ draw(Pt(10, 10))
  \/ stopDrawing

SpecHistory == Init /\ [][NextHistoryStore]_vars

\* The document list: every App handler that changes it, with one-point
\* pencil strokes as the commits.  The pointer leaves the canvas before it
\* reaches the toolbar or the sidebar (onMouseLeave is stopDrawing), so the
\* App handlers run between strokes; a switch goes to another document than
\* the current one.
NextDocuments ==
  \/ ~isDrawing /\ handleUndo
  \/ ~isDrawing /\ handleRedo
  \/ \E docId \in {d \in DocIds(documents) : Some(d) # currentDocumentId} :
       ~isDrawing /\ handleSwitchDocument(docId)
  \/ \E t \in DateNow : ~isDrawing /\ handleNewDocument(t)
  \/ \E docId \in DocIds(documents) : ~isDrawing /\ handleDeleteDocument(docId)
  \/ \E docId \in DocIds(documents), t \in DateNow :
       ~isDrawing /\ handleCopyDocument(docId, t)
  \/ startDrawing(Pt(0, 0))
  \/ isDrawing /\ stopDrawing

SpecDocuments == Init /\ [][NextDocuments]_vars

\* Text editing in one document with the text and hand tools.
NextText ==
  \/ \E t \in {"hand", "text"} : HandleToolChange(t)
  \/ \E point \in {Pt(0, 0), Pt(10, 10)} : startDrawing(point)
  \/ stopDrawing
  \/ \E value \in Texts : TypeText(value)
  \/ handleTextInputEnter
  \/ handleTextInputEscape
  \/ \E clickPos \in {Pt(0, 0), Pt(10, 10)} : handleDoubleClick(clickPos)

SpecText == Init /\ [][NextText]_vars

\* Images in one document: upload, selection, drag and resize with the hand
\* tool.
NextImages ==
  \/ \E t \in {"hand", "image"} : HandleToolChange(t)
  \/ \E size \in NaturalSizes : handleFileChange(size)
  \/ handleFileCancel
  \/ \E point \in {Pt(0, 0), Pt(106, 106), Pt(120, 120)} : startDrawing(point)
  \/ draw(Pt(120, 120))
  \/ stopDrawing

SpecImages == Init /\ [][NextImages]_vars

\* documents are made, drawn on, left, deleted, and the page is reloaded
NextReload ==
  \/ ~isDrawing /\ handleUndo
  \/ \E docId \in {d \in DocIds(documents) : Some(d) # currentDocumentId} :
       ~isDrawing /\ handleSwitchDocument(docId)
  \/ \E t \in DateNow : ~isDrawing /\ handleNewDocument(t)
  \/ \E docId \in DocIds(documents) : ~isDrawing /\ handleDeleteDocument(docId)
  \/ startDrawing(Pt(0, 0))
  \/ isDrawing /\ stopDrawing
  \/ ~isDrawing /\ Reload

SpecReload == Init /\ [][NextReload]_vars

\* images are added through the file input of App and through the input of
\* Canvas, moved, and their documents duplicated
NextUploads ==
  \/ \E t \in {"hand", "image"} : HandleToolChange(t)
  \/ \E size \in NaturalSizes : handleFileChange(size)
  \/ \E size \in NaturalSizes : imageInputChange(size)
  \/ \E docId \in DocIds(documents), t \in DateNow : handleCopyDocument(docId, t)
  \/ startDrawing(Pt(106, 106))
  \/ draw(Pt(120, 120))
  \/ stopDrawing

SpecUploads == Init /\ [][NextUploads]_vars

\* a text typed over an uploaded image, and pointer-downs on the two
NextOverlap ==
  \/ \E t \in {"hand", "text", "image"} : HandleToolChange(t)
  \/ \E size \in NaturalSizes : handleFileChange(size)
  \/ \E point \in {Pt(106, 106), Pt(120, 120)} : startDrawing(point)
  \/ stopDrawing
  \/ TypeText(<<"a">>)
  \/ handleTextInputEnter

SpecOverlap == Init /\ [][NextOverlap]_vars

\* presence: this context shares, the peers of its session announce
\* themselves and leave, and their envelopes arrive over the channel, the
\* storage event and the poll
NextPresence ==
  \/ generateShareLink(now, TRUE)
  \/ disconnect(now, TRUE)
  \/ \E sid \in ShareIds, type \in EventTypes, p \in PeerIds :
       /\ Some(sid) = shareId
       /\ type = "draw" => p = "p1"
       /\ PeerPublish(sid, type, p, now)
  \/ \E i \in 1..Len(storedEvents) : ChannelMessage(i)
  \/ \E i \in 1..Len(storedEvents) : StorageEvent(i)
  \/ PollTick(now)

SpecPresence == Init /\ [][NextPresence]_vars

\* sessions: they are started, joined and left, storage writes may fail, and
\* the poll timers tick
NextSession ==
  \/ \E t \in DateNow, writable \in BOOLEAN : generateShareLink(t, writable)
  \/ \E sid \in ShareIds, t \in DateNow, writable \in BOOLEAN :
       joinSharedSession(sid, t, writable)
  \/ \E t \in DateNow, writable \in BOOLEAN : disconnect(t, writable)
  \/ PeerShares
  \/ \E t \in DateNow : PollTick(t)

SpecSession == Init /\ [][NextSession]_vars

\* one shared session in which this context publishes drawing events
NextPublishing ==
  \/ \E t \in DateNow : setups = 0 /\ generateShareLink(t, TRUE)
  \/ \E t \in DateNow, writable \in BOOLEAN : publishEvent(t, writable)

SpecPublishing == Init /\ [][NextPublishing]_vars

\* gestures in one document: strokes with the pencil, a text typed and an
\* image uploaded, and drags and resizes of these with the hand tool.  The
\* toolbar is reached only after the pointer has left the canvas
\* (onMouseLeave is stopDrawing), so the tool changes between gestures.
NextGestures ==
  \/ \E t \in {"hand", "text", "image"} :
       ~isDrawing /\ HandleToolChange(t)
  \/ \E size \in NaturalSizes : handleFileChange(size)
  \/ \E point \in {Pt(0, 0), Pt(106, 106), Pt(120, 120)} :
       ~isDrawing /\ startDrawing(point)
  \/ draw(Pt(10, 10))
  \/ stopDrawing
  \/ TypeText(<<"a">>)
  \/ handleTextInputEnter

SpecGestures == Init /\ [][NextGestures]_vars

\* strokes with the pencil and the eraser over an uploaded image, which the
\* hand tool drags and resizes; the tool changes between gestures
NextStrokes ==
  \/ \E t \in {"hand", "pencil", "eraser", "image"} :
       ~isDrawing /\ HandleToolChange(t)
  \/ \E size \in NaturalSizes : handleFileChange(size)
  \/ \E point \in {Pt(106, 106), Pt(120, 120)} :
       ~isDrawing /\ startDrawing(point)
  \/ draw(Pt(10, 10))
  \/ stopDrawing

SpecStrokes == Init /\ [][NextStrokes]_vars

\* the selection against a history that moves under it: an image and a text
\* are selected with the hand tool or the context menu and dragged, then come
\* undo and redo, and the delete items of the menu; one image is uploaded
NextStale ==
  \/ \E t \in {"hand", "text", "image"} : ~isDrawing /\ HandleToolChange(t)
  \/ \E size \in NaturalSizes : imageDataCache = {} /\ handleFileChange(size)
  \/ ~isDrawing /\ handleUndo
  \/ ~isDrawing /\ handleRedo
  \/ \E point \in {Pt(0, 0), Pt(106, 106)} : ~isDrawing /\ startDrawing(point)
  \/ draw(Pt(120, 120))
  \/ isDrawing /\ stopDrawing
  \/ TypeText(<<"a">>)
  \/ handleTextInputEnter
  \/ \E point \in {Pt(0, 0), Pt(106, 106), Pt(10, 10)} :
       ~isDrawing /\ handleContextMenu(point)
  \/ handleDeleteImage
  \/ handleDeleteText

SpecStale == Init /\ [][NextStale]_vars

\* resizes: one image, of 20x20 or of 4x4, is uploaded; the pointer goes down
\* on corner handles only and pulls them to points inside and on either side of the image
NextResize ==
  \/ ~isDrawing /\ imageDataCache = {} /\ HandleToolChange("image")
  \/ \E size \in {[width |-> 20, height |-> 20], [width |-> 4, height |-> 4]} :
       imageDataCache = {} /\ handleFileChange(size)
  \/ \E point \in {Pt(100, 100), Pt(120, 100), Pt(100, 120), Pt(120, 120)} :
       ~isDrawing /\ startDrawing(point) /\ isResizing'
  \/ \E point \in {Pt(0, 0), Pt(106, 106), Pt(200, 200)} : draw(point)
  \/ stopDrawing

SpecResize == Init /\ [][NextResize]_vars

\* sessions side by side: this context shares, stops and shares again, a peer
\* publishes under each share id that has a session record, and its
\* envelopes arrive over the channel, the storage event and the poll
NextIsolation ==
  \/ generateShareLink(now, TRUE)
  \/ disconnect(now, TRUE)
  \/ \E sid \in ShareIds, type \in {"user_join", "draw"} :
       PeerPublish(sid, type, "p1", now)
  \/ \E i \in 1..Len(storedEvents) : ChannelMessage(i)
  \/ \E i \in 1..Len(storedEvents) : StorageEvent(i)
  \/ PollTick(now)

SpecIsolation == Init /\ [][NextIsolation]_vars

\* uploads in flight: a file is chosen in the Canvas input or in the input of
\* App, and pencil strokes are committed before its load callbacks run
NextInFlight ==
  \/ \E t \in {"pencil", "image"} : ~isDrawing /\ HandleToolChange(t)
  \/ \E size \in NaturalSizes : imageInputChosen(size)
  \/ ~isDrawing /\ imageInputLoaded
  \/ \E size \in NaturalSizes : IsNull(pendingImage) /\ handleFileChange(size)
  \/ \E point \in {Pt(0, 0), Pt(10, 10)} : ~isDrawing /\ startDrawing(point)
  \/ draw(Pt(106, 106))
  \/ stopDrawing

SpecInFlight == Init /\ [][NextInFlight]_vars

----------------------------------------------------------------------------
(* Properties of the history store (SpecHistory) *)

\* history[cursor] of the current document, the empty snapshot when none
CurrentSnapshot == StateAt(currentHistory, currentHistoryIndex)

\* a pointer-up that commits the stroke in progress
CommitStep == lastOp'.op = "stopDrawing" /\ isDrawing /\ ~IsNull(currentAction)

(* C1: after N commits, U <= N undos and R <= U redos on a new document the  *)
(* current snapshot is the one that was current after N-U+R commits, the     *)
(* empty snapshot when N-U+R = 0.  Step by step: an undo taken while a       *)
(* commit is left to undo (cursor >= 0) makes current the snapshot one       *)
(* commit earlier, the empty snapshot when the cursor was 0; a redo taken    *)
(* while an undone commit is left makes current the snapshot one later.      *)
C1_UndoRedoReplay ==
  [][ /\ (lastOp'.op = "undo" /\ currentHistoryIndex >= 0)
           => CurrentSnapshot' = StateAt(currentHistory, currentHistoryIndex - 1)
      /\ (lastOp'.op = "redo" /\ currentHistoryIndex < Len(currentHistory) - 1)
           => CurrentSnapshot' = StateAt(currentHistory, currentHistoryIndex + 1)
    ]_vars

(* C2: a commit keeps snapshots [0..cursor], discards every snapshot after   *)
(* the cursor, appends the new snapshot and sets the cursor to the new last  *)
(* index; canRedo is then false, stays false until an undo occurs, and a     *)
(* redo while canRedo is false changes nothing.                              *)
C2_CommitDiscardsRedoable ==
  [][ /\ CommitStep =>
           /\ Len(currentHistory') = currentHistoryIndex + 2
           /\ SubSeq(currentHistory', 1, currentHistoryIndex + 1)
                = SubSeq(currentHistory, 1, currentHistoryIndex + 1)
           /\ currentHistory'[currentHistoryIndex + 2]
                = Append(CurrentSnapshot, Val(currentAction))
           /\ currentHistoryIndex' = currentHistoryIndex + 1
           /\ ~canRedo'
      /\ (~canRedo /\ lastOp'.op # "undo") => ~canRedo'
      /\ (lastOp'.op = "redo" /\ ~canRedo) => documents' = documents
    ]_vars

\* a stroke was committed while a redoable snapshot existed: the history is
\* cut to the old cursor plus the new snapshot
C2_BranchCommitted ==
  /\ lastOp.op = "stopDrawing"
  /\ lastOp.cursor >= 0
  /\ lastOp.cursor < lastOp.length - 1
  /\ currentHistoryIndex = lastOp.cursor + 1
  /\ Len(currentHistory) = lastOp.cursor + 2
  /\ ~canRedo

(* C4: on a document with empty history, committing one stroke makes the     *)
(* current snapshot have exactly 1 element and canUndo true, and an undo     *)
(* after that first commit makes the current snapshot have 0 elements.       *)
C4_FirstCommitUndoable ==
  [][ /\ (CommitStep /\ Len(currentHistory) = 0)
           => (Len(CurrentSnapshot') = 1 /\ canUndo')
      /\ (lastOp'.op = "undo" /\ Len(currentHistory) = 1
            /\ currentHistoryIndex = 0)
           => Len(CurrentSnapshot') = 0
    ]_vars

----------------------------------------------------------------------------
(* Properties of the document list (SpecDocuments) *)

(* C3: in every reachable state every document has cursor -1 when its        *)
(* history is empty and 0 <= cursor < length when it is not.                 *)
C3_CursorInRange ==
  \A i \in 1..Len(documents) :
    IF Len(documents[i].history) = 0
    THEN documents[i].historyIndex = -1
    ELSE /\ 0 <= documents[i].historyIndex
         /\ documents[i].historyIndex < Len(documents[i].history)

(* C5: undo and redo are defined in every state; an undo changes nothing     *)
(* (no history, no cursor of any document) exactly when canUndo is false,    *)
(* and a redo changes nothing exactly when canRedo is false.                 *)
C5_UndoRedoNoOps ==
  [][ /\ lastOp'.op = "undo" =>
           /\ ~canUndo => documents' = documents
           /\ canUndo => currentHistoryIndex' = currentHistoryIndex - 1
      /\ lastOp'.op = "redo" =>
           /\ ~canRedo => documents' = documents
           /\ canRedo => currentHistoryIndex' = currentHistoryIndex + 1
      /\ lastOp'.op \in {"undo", "redo"} =>
           /\ currentDocumentId' = currentDocumentId
           /\ Len(documents') = Len(documents)
           /\ \A i \in 1..Len(documents) :
                documents'[i].history = documents[i].history
    ]_vars

\* an undo was ignored with the cursor on the first of two snapshots, while
\* two documents were listed
C5_IgnoredUndo ==
  /\ Len(documents) = 2
  /\ lastOp.op = "undo"
  /\ lastOp.cursor = 0
  /\ lastOp.length = 2
  /\ currentHistoryIndex = 0
  /\ canRedo

(* C6: a commit, undo or redo on the current document leaves the history and *)
(* the cursor of every other document of the list unchanged, a copy and its  *)
(* original included.                                                        *)
C6_OtherDocumentsUntouched ==
  [][ (CommitStep \/ lastOp'.op \in {"undo", "redo"}) =>
        /\ Len(documents') = Len(documents)
        /\ \A i \in 1..Len(documents) :
             i # currentDocument => documents'[i] = documents[i]
    ]_vars

(* C7 as stated: the document list is never empty, and deleting the last     *)
(* remaining document leaves exactly one fresh document (empty history,      *)
(* cursor -1) that is the current document.                                  *)
C7_NeverEmpty ==
  [][ /\ documents' # <<>>
      /\ (lastOp'.op = "delete" /\ Len(documents) = 1) =>
           /\ Len(documents') = 1
           /\ documents'[1].history = <<>>
           /\ documents'[1].historyIndex = -1
           /\ currentDocumentId' = Some(documents'[1].id)
    ]_vars

(* C7 amended: deleting the last remaining document leaves an empty list and *)
(* no current document, and no fresh document is made.  The list is empty    *)
(* exactly when there is no current document, and a current document is      *)
(* always one of the listed documents.                                       *)
C7_LastDeleteEmptiesList ==
  [][ /\ (lastOp'.op = "delete" /\ Len(documents) = 1) =>
           (documents' = <<>> /\ IsNull(currentDocumentId'))
      /\ (documents' = <<>>) <=> IsNull(currentDocumentId')
      /\ ~IsNull(currentDocumentId') =>
           Val(currentDocumentId') \in DocIds(documents')
    ]_vars

\* the last document has been deleted: nothing is listed, nothing is current
C7_ListEmptied ==
  /\ lastOp.op = "delete"
  /\ documents = <<>>
  /\ IsNull(currentDocumentId)

----------------------------------------------------------------------------
(* Properties of image hit testing (SpecImages) *)

\* points on, just inside and just outside the edges of the image rectangles
Coordinates == {99, 100, 106, 114, 120, 121, 134, 135}
ProbePoints ==
  {Pt(c, c) : c \in Coordinates}
    \cup {Pt(99, 100), Pt(100, 99), Pt(100, 121), Pt(121, 100)}

\* the 0-based indices of the images of a snapshot whose rectangle, edges
\* included, holds the point
ImagesHolding(actions, point) ==
  {i \in 0..(Len(actions) - 1) :
     /\ ~IsNull(actions[i + 1].imageElement)
     /\ LET im == Val(actions[i + 1].imageElement) IN
          /\ im.position.x <= point.x /\ point.x <= im.position.x + im.width
          /\ im.position.y <= point.y /\ point.y <= im.position.y + im.height}

(* C8: for the current snapshot and any point, the image hit test returns    *)
(* the highest index of an image whose rectangle (edges inclusive) holds the *)
(* point, and none when no image holds it; so of two images at i < j holding *)
(* the point it returns j.                                                   *)
C8_TopmostImageWins ==
  \A point \in ProbePoints :
    LET holding == ImagesHolding(CurrentSnapshot, point) IN
    hitTestImage(currentHistory, currentHistoryIndex, point) =
      IF holding = {} THEN -1
      ELSE CHOOSE j \in holding : \A i \in holding : i <= j

\* a pointer-down with the hand tool on a point two images hold selected the
\* one with the higher index
C8_OverlapSelectsUpper ==
  /\ lastOp.op = "startDrawing"
  /\ tool = "hand"
  /\ \E i, j \in ImagesHolding(CurrentSnapshot, Val(lastOp.arg)) :
       /\ i < j
       /\ selectedImageIndex = Some(j)
       /\ selectedImage = Some(CurrentSnapshot[j + 1])

----------------------------------------------------------------------------
(* Properties of text editing (SpecText) *)

\* a text editor made by a click with the text tool (empty pre-fill) whose
\* content is empty or whitespace
FreshBlankEditor ==
  /\ ~IsNull(activeTextInput)
  /\ Val(activeTextInput).initialValue = <<>>
  /\ Trim(inputValue) = <<>>

(* C9: a commit-text pass on a fresh editor with empty or whitespace         *)
(* content, run by a pointer-down on the canvas, a tool switch or the Enter  *)
(* key, commits nothing (documents unchanged) and leaves a fresh editor      *)
(* with the same content open.                                               *)
C9_BlankEditorStays ==
  [][ (FreshBlankEditor /\ lastOp'.op \in {"startDrawing", "toolChange", "enter"})
        => /\ documents' = documents
           /\ ~IsNull(activeTextInput')
           /\ Val(activeTextInput').initialValue = <<>>
           /\ inputValue' = inputValue
    ]_vars

\* Enter was pressed in a fresh editor holding one blank: it is still open
\* and nothing has been committed
C9_StillEditing ==
  /\ lastOp.op = "enter"
  /\ ~IsNull(activeTextInput)
  /\ Val(activeTextInput).initialValue = <<>>
  /\ inputValue = <<" ">>
  /\ currentHistory = <<>>

(* C10: confirming (Enter) the re-edit of an existing Text element whose     *)
(* content was cleared to empty removes that element: the current snapshot   *)
(* after the confirm holds no Text element with the edited text at the       *)
(* edited position.                                                          *)
C10_ClearedTextRemoved ==
  [][ (/\ lastOp'.op = "enter"
       /\ ~IsNull(activeTextInput)
       /\ Val(activeTextInput).initialValue # <<>>
       /\ inputValue = <<>>)
        => \A k \in 1..Len(CurrentSnapshot') :
             CurrentSnapshot'[k].textElement #
               Some([text |-> Val(activeTextInput).initialValue,
                     position |-> Val(activeTextInput).position])
    ]_vars

----------------------------------------------------------------------------
(* Properties of presence (SpecPresence) *)

\* the entries the peer map holds under a user id
EntriesFor(m, userId) == {i \in 1..Len(m) : m[i].key = userId}

\* the last step ran handleCollaborationEvent on a peer's envelope of the
\* given type: a channel message, or a storage event of the current session
Handled(type) ==
  /\ lastOp.op \in {"channelMessage", "storageEvent"}
  /\ Val(lastOp.arg).entry.event.type = type
  /\ \/ lastOp.op = "channelMessage"
     \/ Some(Val(lastOp.arg).entry.shareId) = shareId

(* C11: handling the same user_join envelope of a peer any number of times,  *)
(* over the channel, the storage listener and the poll in any combination,   *)
(* leaves the peer map with exactly one entry for that peer: no state holds  *)
(* two entries for one peer, and the state after a user_join of a peer was   *)
(* handled holds exactly one for it.                                         *)
C11_JoinListedOnce ==
  /\ \A p \in PeerIds : Cardinality(EntriesFor(connectedUsers, PeerId(p))) <= 1
  /\ Handled("user_join") =>
       Cardinality(EntriesFor(connectedUsers,
                              Val(lastOp.arg).entry.event.userId)) = 1

\* a user_join was handled for a peer the map already held
C11_JoinHandledAgain ==
  /\ Handled("user_join")
  /\ Val(lastOp.arg).known
  /\ Cardinality(EntriesFor(connectedUsers,
                            Val(lastOp.arg).entry.event.userId)) = 1

\* a session is active: the service has a share id and a local user
SessionActive == ~IsNull(shareId) /\ ~IsNull(currentUser)

\* the places a user list holds a user id at
PlacesOf(list, userId) == {i \in 1..Len(list) : list[i].id = userId}

\* the list holds the local user once and nobody twice
ListsLocalOnce(list, local) ==
  /\ Cardinality(PlacesOf(list, local.id)) = 1
  /\ \A i \in 1..Len(list) : Cardinality(PlacesOf(list, list[i].id)) = 1

\* a user_join or user_leave envelope of another user lies in the store
\* under the current share id, where the poll finds it
PresenceToPoll ==
  \E i \in EventKeys(storedEvents, Val(shareId)) :
    /\ storedEvents[i].event.type \in {"user_join", "user_leave"}
    /\ storedEvents[i].event.userId # Val(currentUser).id

(* C12: while a session is active, every user list passed to an              *)
(* onUsersChange listener holds the local user exactly once and each peer at *)
(* most once; the peer map changes only in a step that handles a user_join   *)
(* or user_leave envelope of another user, and a step that handles a         *)
(* non-presence envelope, or only envelopes of the local user, leaves it     *)
(* unchanged.                                                                *)
C12_PresenceFromJoinLeaveOnly ==
  [][/\ SessionActive' =>
          \A k \in 1..Len(notified') : ListsLocalOnce(notified'[k], Val(currentUser'))
     /\ SessionActive' /\ connectedUsers' # connectedUsers =>
          \/ Handled("user_join")' \/ Handled("user_leave")'
          \/ lastOp'.op = "pollTick" /\ PresenceToPoll'
     /\ Handled("draw")' => connectedUsers' = connectedUsers
     /\ lastOp'.op = "pollTick" /\ SessionActive' /\ ~PresenceToPoll' =>
          connectedUsers' = connectedUsers]_vars

\* in an active session a listener was passed a list of a peer and the local
\* user, after that peer's user_join was handled
C12_PeerAndLocalListed ==
  /\ SessionActive
  /\ Handled("user_join")
  /\ Len(notified) = 1
  /\ Len(notified[1]) = 2
  /\ notified[1][1].id = Val(lastOp.arg).entry.event.userId
  /\ notified[1][2] = Val(currentUser)

----------------------------------------------------------------------------
(* Properties of publishing (SpecPublishing) *)

\* the last step was a broadcastEvent that wrote its entry while the store
\* held n entries of the session
PublishedOver(n) ==
  /\ lastOp.op = "broadcastEvent"
  /\ Val(lastOp.arg).writable
  /\ Val(lastOp.arg).stored = n

(* C13: when a broadcastEvent call has returned, the durable store holds at   *)
(* most 10 event entries under the publisher's share id.                      *)
C13_AtMostTenStored ==
  \A sid \in ShareIds : Cardinality(EventKeys(storedEvents, sid)) <= KeepCount

\* a broadcastEvent wrote an eleventh entry and returned with ten stored
C13_EleventhPruned ==
  /\ PublishedOver(KeepCount)
  /\ Cardinality(EventKeys(storedEvents, Val(shareId))) = KeepCount

\* how many entries of a sequence carry the timestamp t
StoredAt(events, t) ==
  Cardinality({i \in 1..Len(events) : events[i].timestamp = t})

(* C14: when a publish prunes, the entries kept are the 10 with the largest   *)
(* timestamps: the entry just written is kept (it is the last of the store)   *)
(* and no kept entry is older than a removed one.                             *)
C14_NewestTenKept ==
  [][PublishedOver(KeepCount)' =>
       /\ storedEvents'[Len(storedEvents')].timestamp = now'
       /\ \A r \in 0..now' :
            StoredAt(storedEvents', r) < StoredAt(storedEvents, r) =>
              \A k \in 1..Len(storedEvents') : storedEvents'[k].timestamp >= r]_vars

----------------------------------------------------------------------------
(* Properties of sessions (SpecSession) *)

\* the session is set up: share id, local user and an open channel
SessionSetUp ==
  /\ ~IsNull(shareId)
  /\ ~IsNull(currentUser)
  /\ ~IsNull(broadcastChannel)

\* the user_leave envelope of the local user at clock t
LeaveEnvelope(t) == Envelope("user_leave", Val(currentUser), t)

(* C15: disconnect() on an active session publishes a user_leave envelope of  *)
(* the local user, written to the durable store and posted on the channel,    *)
(* before the channel is closed and the session state is cleared; when it     *)
(* returns, shareId and the local user are null, the peer map is empty and    *)
(* isInSharedSession() is false.                                              *)
C15_LeavePublishedThenCleared ==
  [][SessionSetUp /\ lastOp'.op = "disconnect" =>
       /\ \E i \in EventKeys(storedEvents', Val(shareId)) :
            storedEvents'[i].event = LeaveEnvelope(now')
       /\ [channel |-> Val(broadcastChannel), event |-> LeaveEnvelope(now')]
            \in posted'
       /\ shareId' = Null
       /\ currentUser' = Null
       /\ connectedUsers' = <<>>
       /\ ~isInSharedSession']_vars

(* C16: disconnect() stops the poll timer: after it returns no poll timer and *)
(* no storage listener installed by the session remains registered, and over  *)
(* any sequence of generateShareLink, joinSharedSession and disconnect calls  *)
(* at most one poll timer is active at a time.                                *)
C16_TimersReleased ==
  /\ lastOp.op = "disconnect" => pollTimers = 0 /\ storageListeners = 0
  /\ pollTimers <= 1

\* a session record of the share id can be read from one of the two stores
RecordReadable(sid) == sid \in durableStore \/ sid \in sessionStore

(* C17: after generateShareLink returns share id S the session record of S is *)
(* in the session store and in the durable store; joinSharedSession(S) in a   *)
(* context that can read the record from either store returns true, and       *)
(* joinSharedSession(X) for an id with no record in either store returns      *)
(* false.                                                                     *)
C17_RecordFoundByJoin ==
  [][/\ lastOp'.op = "generateShareLink" /\ Val(lastOp'.arg).writable =>
          /\ Val(shareId') \in sessionStore'
          /\ Val(shareId') \in durableStore'
     /\ lastOp'.op = "joinSharedSession" =>
          Val(lastOp'.arg).returns = RecordReadable(Val(lastOp'.arg).shareId)]_vars

----------------------------------------------------------------------------
(* Properties of selection over texts and images (SpecOverlap) *)

\* the indices of the Text elements whose bounds hold the point
TextsHolding(actions, point) ==
  {i \in 0..(Len(actions) - 1) :
     /\ ~IsNull(actions[i + 1].textElement)
     /\ isPointInText(point, Val(actions[i + 1].textElement))}

\* a pointer-down of the hand tool at a point that a Text and an Image of the
\* current snapshot both hold
DownOnTextAndImage ==
  /\ lastOp'.op = "startDrawing"
  /\ tool = "hand"
  /\ TextsHolding(CurrentSnapshot, Val(lastOp'.arg)) # {}
  /\ ImagesHolding(CurrentSnapshot, Val(lastOp'.arg)) # {}

(* C20: with the hand tool, a pointer-down on a point inside the bounds of a  *)
(* Text element and of an Image element selects the Text element, whatever    *)
(* their indices in the snapshot.                                             *)
C20_TextSelectedOverImage ==
  [][DownOnTextAndImage => ~IsNull(selectedText') /\ IsNull(selectedImage')]_vars

----------------------------------------------------------------------------
(* Properties of the persisted record (SpecReload) *)

(* C18: the persisted session record always mirrors the in-memory state:      *)
(* after any sequence of new, delete, switch, commit and undo operations, a   *)
(* reload from the session-scoped store restores exactly the current list of  *)
(* documents (ids, histories, cursors) and the current document id.           *)
C18_ReloadRestoresState ==
  [][lastOp'.op = "reload" =>
       /\ documents' = documents
       /\ currentDocumentId' = currentDocumentId]_vars

----------------------------------------------------------------------------
(* Properties of the image cache (SpecUploads) *)

\* the image ids of the Image elements of every snapshot of every document;
\* null stands for an element without an imageId
ImageIdsIn(docs) ==
  UNION {UNION {{Val(docs[d].history[h][a].imageElement).imageId :
                   a \in {k \in 1..Len(docs[d].history[h]) :
                            ~IsNull(docs[d].history[h][k].imageElement)}} :
                h \in 1..Len(docs[d].history)} :
         d \in 1..Len(docs)}

(* C19: the image cache only grows, no operation removes an entry of it, and  *)
(* every Image element of every snapshot of every document, duplicated        *)
(* documents included, has an imageId that is a key of the cache.             *)
C19_EveryImageCached ==
  [][/\ imageDataCache \subseteq imageDataCache'
     /\ \A id \in ImageIdsIn(documents') :
          ~IsNull(id) /\ Val(id) \in imageDataCache']_vars

----------------------------------------------------------------------------
(* Properties of the resize handles (SpecImages) *)

\* a pointer-down of the hand tool on a handle zone of the image it hits,
\* while that image is not the selected one
DownOnCornerOfUnselected ==
  /\ lastOp'.op = "startDrawing"
  /\ tool = "hand"
  /\ \E i \in ImagesHolding(CurrentSnapshot, Val(lastOp'.arg)) :
       /\ i = hitTestImage(currentHistory, currentHistoryIndex, Val(lastOp'.arg))
       /\ ~IsNull(getResizeHandle(Val(lastOp'.arg), CurrentSnapshot[i + 1]))
       /\ selectedImageIndex # Some(i)

(* C21: resize handles are tested only against the image that is already      *)
(* selected: a pointer-down with the hand tool on a corner of an image that   *)
(* was not selected before that pointer-down never enters the resizing phase. *)
C21_HandlesOfSelectedOnly ==
  [][DownOnCornerOfUnselected => ~isResizing']_vars

----------------------------------------------------------------------------
(* Properties of drags and resizes (SpecGestures) *)

\* the selected element as the gesture previews it, with its stored index
Selected ==
  IF ~IsNull(selectedImage)
  THEN [element |-> selectedImage, index |-> selectedImageIndex]
  ELSE [element |-> selectedText, index |-> selectedTextIndex]

\* isDrawing, isDragging and isResizing false, dragStart and resizeHandle null
GestureIdle ==
  /\ ~isDrawing /\ ~isDragging /\ ~isResizing
  /\ IsNull(dragStart) /\ IsNull(resizeHandle)

\* a pointer-up (or the pointer leaving the canvas) during a drag or resize
\* of the selected element
EndsGesture ==
  /\ lastOp'.op = "stopDrawing"
  /\ tool = "hand"
  /\ isDragging \/ isResizing
  /\ ~IsNull(Selected.element) /\ ~IsNull(Selected.index)

----------------------------------------------------------------------------
(* Properties of pointer moves and strokes (SpecStrokes) *)

(* C23: no pointer-move changes the history: during a drag, a resize or a     *)
(* stroke in progress, the length of the history, the cursor and the content  *)
(* of every committed snapshot, the dragged or resized element in them        *)
(* included, stay as they are until the pointer-up.                           *)
C23_MoveLeavesHistory ==
  [][lastOp'.op = "draw" => documents' = documents]_vars

\* a pointer-move has given the selected image a preview that differs from
\* the element the current snapshot holds at its index
C23_PreviewAheadOfHistory ==
  /\ lastOp.op = "draw"
  /\ tool = "hand"
  /\ ~IsNull(selectedImage) /\ ~IsNull(selectedImageIndex)
  /\ Val(selectedImageIndex) < Len(CurrentSnapshot)
  /\ CurrentSnapshot[Val(selectedImageIndex) + 1] # Val(selectedImage)

\* the Stroke elements of a snapshot
Strokes(actions) ==
  {actions[j] : j \in {k \in 1..Len(actions) : actions[k].tool \in DrawTools}}

\* every Stroke of every snapshot of every document has at least one point
StrokesHavePoints ==
  \A d \in 1..Len(documents) : \A h \in 1..Len(documents[d].history) :
    \A s \in Strokes(documents[d].history[h]) : Len(s.points) >= 1

(* C24: with the pencil or the eraser, a pointer-down at p0, k >= 0 pointer-   *)
(* moves p1..pk and a pointer-up append exactly one snapshot, the previous    *)
(* current snapshot plus one Stroke with the points p0, p1, ..., pk in that   *)
(* order; afterwards the stroke in progress is null, and every Stroke of      *)
(* every committed snapshot has at least one point.  Step by step: the        *)
(* pointer-down starts the stroke with p0 alone, each move appends its point, *)
(* and the pointer-up commits the stroke as it then is.                       *)
C24_StrokeCommitted ==
  [][/\ lastOp'.op = "startDrawing" /\ tool \in DrawTools =>
          /\ ~IsNull(currentAction')
          /\ Val(currentAction').tool = tool
          /\ Val(currentAction').points = <<Val(lastOp'.arg)>>
     /\ lastOp'.op = "draw" /\ tool \in DrawTools /\ ~IsNull(currentAction) =>
          /\ ~IsNull(currentAction')
          /\ Val(currentAction').tool = Val(currentAction).tool
          /\ Val(currentAction').points =
               Val(currentAction).points \o <<Val(lastOp'.arg)>>
     /\ lastOp'.op = "stopDrawing" /\ tool \in DrawTools /\ ~IsNull(currentAction) =>
          /\ currentHistoryIndex' = currentHistoryIndex + 1
          /\ Len(currentHistory') = currentHistoryIndex + 2
          /\ \A k \in 1..(currentHistoryIndex + 1) :
               currentHistory'[k] = currentHistory[k]
          /\ CurrentSnapshot' = CurrentSnapshot \o <<Val(currentAction)>>
          /\ IsNull(currentAction')
     /\ StrokesHavePoints']_vars

\* a stroke of more than one point has been committed on top of a snapshot
C24_LongStrokeCommitted ==
  /\ lastOp.op = "stopDrawing"
  /\ IsNull(currentAction)
  /\ currentHistoryIndex = lastOp.cursor + 1
  /\ Len(CurrentSnapshot) >= 2
  /\ CurrentSnapshot[Len(CurrentSnapshot)].tool \in DrawTools
  /\ Len(CurrentSnapshot[Len(CurrentSnapshot)].points) >= 2

\* the selected element, as previewed, is an element of the current snapshot
PreviewInHistory ==
  /\ ~IsNull(selectedImage) =>
       \E j \in 1..Len(CurrentSnapshot) : CurrentSnapshot[j] = Val(selectedImage)
  /\ ~IsNull(selectedText) =>
       \E j \in 1..Len(CurrentSnapshot) : CurrentSnapshot[j] = Val(selectedText)

(* C25: when the pointer leaves the drawing surface during a stroke, a drag   *)
(* or a resize (onMouseLeave runs stopDrawing, as onMouseUp does), the        *)
(* gesture ends in a consistent state: the gesture phase is idle, the stroke  *)
(* in progress is null, and the previewed value of the selected element is    *)
(* the element the current snapshot holds, so no preview differs from the     *)
(* history.                                                                   *)
C25_LeaveEndsConsistent ==
  [][lastOp'.op = "stopDrawing" /\ (isDrawing \/ isDragging \/ isResizing) =>
       /\ GestureIdle'
       /\ IsNull(currentAction')
       /\ PreviewInHistory']_vars

\* a resize or drag was ended while its preview differed from the snapshot
\* then current, and the snapshot now current holds the preview
C25_PreviewCommittedOnLeave ==
  /\ lastOp.op = "stopDrawing"
  /\ GestureIdle
  /\ ~IsNull(selectedImage)
  /\ PreviewInHistory
  /\ lastOp.cursor >= 0
  /\ \A j \in 1..Len(currentHistory[lastOp.cursor + 1]) :
       currentHistory[lastOp.cursor + 1][j] # Val(selectedImage)

----------------------------------------------------------------------------
(* Properties of re-editing a text (SpecText) *)

\* the number of Text elements of a snapshot
TextCount(actions) ==
  Cardinality({k \in 1..Len(actions) : ~IsNull(actions[k].textElement)})

\* Enter confirms the re-edit of an existing Text element with a content that
\* is not blank and differs from the pre-fill
ReeditConfirmed ==
  /\ lastOp'.op = "enter"
  /\ ~IsNull(activeTextInput)
  /\ Val(activeTextInput).initialValue # <<>>
  /\ Trim(inputValue) # <<>>
  /\ inputValue # Val(activeTextInput).initialValue

(* C26: committing a re-edit of an existing Text element whose new content is *)
(* non-empty and differs from the pre-fill makes one new snapshot in which    *)
(* the old Text element is absent and one new Text element with the new       *)
(* content is appended: the number of Text elements is the same as before.    *)
C26_ReeditReplacesText ==
  [][ReeditConfirmed =>
       /\ currentHistoryIndex' = currentHistoryIndex + 1
       /\ CurrentSnapshot'[Len(CurrentSnapshot')].textElement =
            Some([text |-> inputValue, position |-> Val(activeTextInput).position])
       /\ TextCount(CurrentSnapshot') = TextCount(CurrentSnapshot)]_vars

\* the Text element an editor was opened on
EditedElement(active) ==
  Some([text |-> active.initialValue, position |-> active.position])

(* C27: the cancel key (Escape) in a text editor closes the editor, commits   *)
(* nothing and leaves the document as it was before the edit began: opening   *)
(* the editor on an existing Text changes no snapshot, and after the cancel   *)
(* the history is what it was and the current snapshot still holds the        *)
(* original Text element.                                                     *)
C27_CancelRestores ==
  [][/\ lastOp'.op = "escape" =>
          /\ IsNull(activeTextInput')
          /\ documents' = documents
          /\ Val(activeTextInput).initialValue # <<>> =>
               \E k \in 1..Len(CurrentSnapshot') :
                 CurrentSnapshot'[k].textElement =
                   EditedElement(Val(activeTextInput))
     /\ (/\ lastOp'.op = "doubleClick"
         /\ IsNull(activeTextInput) /\ ~IsNull(activeTextInput')) =>
          documents' = documents]_vars

\* the editor opened on the Text "a" was closed by Escape, and the current
\* snapshot holds that Text
C27_ReeditCancelled ==
  /\ lastOp.op = "escape"
  /\ IsNull(activeTextInput)
  /\ Val(lastOp.arg).initialValue = <<"a">>
  /\ \E k \in 1..Len(CurrentSnapshot) :
       CurrentSnapshot[k].textElement = EditedElement(Val(lastOp.arg))

----------------------------------------------------------------------------
(* Properties of the tool switch (SpecText) *)

(* C28: switching the tool away from text while a text editor is active runs  *)
(* a commit-text pass first (a content that is not blank and differs from the *)
(* pre-fill is committed and the editor closed), and after a switch to any    *)
(* tool other than the hand tool nothing is selected: the selected image, the *)
(* selected text and their stored indices are all null.                       *)
C28_SwitchCommitsAndDeselects ==
  [][lastOp'.op = "toolChange" =>
       /\ (/\ tool = "text" /\ ~IsNull(activeTextInput)
           /\ Trim(inputValue) # <<>>
           /\ inputValue # Val(activeTextInput).initialValue) =>
            /\ IsNull(activeTextInput')
            /\ Len(CurrentSnapshot') = Len(CurrentSnapshot) + 1
            /\ CurrentSnapshot'[Len(CurrentSnapshot')].textElement =
                 Some([text |-> inputValue,
                       position |-> Val(activeTextInput).position])
       /\ tool' # "hand" =>
            /\ IsNull(selectedImage') /\ IsNull(selectedImageIndex')
            /\ IsNull(selectedText') /\ IsNull(selectedTextIndex')]_vars

----------------------------------------------------------------------------
(* Properties of the stored selection indices (SpecStale) *)

\* b is the element a, possibly moved or resized
SameElement(a, b) ==
  /\ a.tool = b.tool
  /\ a.points = b.points
  /\ IsNull(a.textElement) = IsNull(b.textElement)
  /\ ~IsNull(a.textElement) => Val(a.textElement).text = Val(b.textElement).text
  /\ IsNull(a.imageElement) = IsNull(b.imageElement)
  /\ ~IsNull(a.imageElement) =>
       Val(a.imageElement).imageId = Val(b.imageElement).imageId

\* the snapshot without its element at index i (0-based)
Without(actions, i) ==
  SubSeq(actions, 1, i) \o SubSeq(actions, i + 2, Len(actions))

\* the step removes from the current snapshot the element that is selected
RemovesSelected(selected) ==
  \E i \in 0..(Len(CurrentSnapshot) - 1) :
    /\ SameElement(CurrentSnapshot[i + 1], selected)
    /\ CurrentSnapshot' = Without(CurrentSnapshot, i)

(* C29: a stored selection index is never used blindly.  When the commit of a *)
(* drag or resize, Delete Image or Delete Text runs after the current         *)
(* snapshot has changed under the selection (undo, redo, another commit), the *)
(* element it replaces or removes is the selected element itself, or else     *)
(* the selection counts as no selection and nothing is committed.             *)
C29_SelectionResolved ==
  [][/\ (lastOp'.op = "deleteImage" /\ ~IsNull(selectedImage)) =>
          \/ RemovesSelected(Val(selectedImage))
          \/ documents' = documents
     /\ (lastOp'.op = "deleteText" /\ ~IsNull(selectedText)) =>
          \/ RemovesSelected(Val(selectedText))
          \/ documents' = documents
     /\ EndsGesture =>
          \/ /\ Val(Selected.index) < Len(CurrentSnapshot)
             /\ SameElement(CurrentSnapshot[Val(Selected.index) + 1],
                            Val(Selected.element))
          \/ documents' = documents]_vars

----------------------------------------------------------------------------
(* Properties of resizing (SpecResize) *)

\* the width and the height of an image action are at least 10
AtLeastMinSize(action) ==
  /\ Val(action.imageElement).width >= 10
  /\ Val(action.imageElement).height >= 10

\* a gesture on a corner handle of the selected image is in progress
Resizing ==
  /\ tool = "hand"
  /\ isResizing /\ ~IsNull(resizeHandle)
  /\ ~IsNull(selectedImage) /\ ~IsNull(selectedImageIndex)

(* C30 as stated: during and after any resize gesture, from any corner handle *)
(* and for any pointer position, the width and the height of the resized      *)
(* image, in the preview and in the snapshot committed on pointer-up, are at  *)
(* least 10 units.                                                            *)
C30_ResizeKeepsMinSize ==
  [][/\ Resizing' => AtLeastMinSize(Val(selectedImage'))
     /\ (lastOp'.op = "stopDrawing" /\ Resizing) =>
          AtLeastMinSize(CurrentSnapshot'[Val(selectedImageIndex) + 1])]_vars

(* C30, amended: every pointer-move of a resize gesture, from any corner      *)
(* handle and for any pointer position, leaves the previewed image at least   *)
(* 10 units wide and high, and so is the image in the snapshot committed by   *)
(* the pointer-up that follows a pointer-move of the gesture.  (An image      *)
(* uploaded smaller than that keeps its size while no pointer-move resizes    *)
(* it.)                                                                       *)
C30_ResizeMoveKeepsMinSize ==
  [][/\ (lastOp'.op = "draw" /\ Resizing) => AtLeastMinSize(Val(selectedImage'))
     /\ (lastOp'.op = "stopDrawing" /\ lastOp.op = "draw" /\ Resizing) =>
          AtLeastMinSize(CurrentSnapshot'[Val(selectedImageIndex) + 1])]_vars

\* a resize was committed after a move that the clamp cut off: the image now
\* stored is 10 wide, the image stored before was not
C30_ClampedResizeCommitted ==
  /\ lastOp.op = "stopDrawing"
  /\ tool = "hand"
  /\ ~IsNull(selectedImage) /\ ~IsNull(selectedImageIndex)
  /\ currentHistoryIndex = lastOp.cursor + 1
  /\ lastOp.cursor >= 0
  /\ Val(selectedImageIndex) < Len(CurrentSnapshot)
  /\ CurrentSnapshot[Val(selectedImageIndex) + 1] = Val(selectedImage)
  /\ Val(Val(selectedImage).imageElement).width = 10
  /\ Val(currentHistory[lastOp.cursor + 1][Val(selectedImageIndex) + 1].imageElement).width # 10

----------------------------------------------------------------------------
(* Properties of redelivery (SpecPresence) *)

\* the user whose user_leave envelope the last step handled, if it did
LeftUsers ==
  IF Handled("user_leave") THEN {Val(lastOp.arg).entry.event.userId} ELSE {}

\* every user_join the user published is followed by a user_leave of theirs
NoLaterJoin(events, userId) ==
  \A i \in 1..Len(events) :
    (events[i].event.userId = userId /\ events[i].event.type = "user_join") =>
      \E j \in (i + 1)..Len(events) :
        /\ events[j].event.userId = userId
        /\ events[j].event.type = "user_leave"

(* C31: once a user_leave envelope of a peer has been handled and the peer   *)
(* has published no later user_join, the step that follows, whatever it      *)
(* delivers (the peer's earlier user_join again, over the channel, the       *)
(* storage listener or a poll tick), leaves the peer absent from the peer    *)
(* map and from every user list it passes to a listener.                     *)
C31_LeftPeerStaysAbsent ==
  [][\A userId \in LeftUsers :
       NoLaterJoin(storedEvents', userId) =>
         /\ ~MapHas(connectedUsers', userId)
         /\ \A k \in 1..Len(notified') : PlacesOf(notified'[k], userId) = {}]_vars

----------------------------------------------------------------------------
(* Properties of document ids (SpecDocuments) *)

(* C32: after any sequence of new-document, copy-document and                *)
(* delete-document operations, several of them within one clock millisecond  *)
(* included, the documents of the list have pairwise distinct ids.           *)
C32_DocumentIdsDistinct ==
  \A i, j \in 1..Len(documents) : i # j => documents[i].id # documents[j].id

----------------------------------------------------------------------------
(* Properties of the current document (SpecDocuments) *)

\* the current id names no document exactly when none is listed
CurrentIsListed ==
  /\ (documents = <<>>) <=> IsNull(currentDocumentId)
  /\ ~IsNull(currentDocumentId) => Val(currentDocumentId) \in DocIds(documents)

(* C33: after any sequence of new, switch, copy and delete document          *)
(* operations, currentDocumentId is null exactly when the list is empty and  *)
(* otherwise the id of a listed document; a delete of the current document   *)
(* (the one documents.find returns for the current id) makes the first       *)
(* remaining document current, and a delete of any other listed document     *)
(* leaves currentDocumentId unchanged.                                       *)
C33_CurrentFollowsDeletes ==
  [][/\ CurrentIsListed'
     /\ lastOp'.op = "delete" =>
          \A i \in 1..Len(documents) :
            documents' = DeleteDocs(documents, documents[i].id) =>
              IF i = currentDocument
              THEN documents' # <<>> =>
                     currentDocumentId' = Some(documents'[1].id)
              ELSE currentDocumentId' = currentDocumentId]_vars

----------------------------------------------------------------------------
(* Properties of failed set-ups (SpecSession) *)

\* the step is a set-up that fails: joinSharedSession returns false, or the
\* durable write of generateShareLink throws
SetUpFails ==
  \/ lastOp'.op = "joinSharedSession" /\ ~Val(lastOp'.arg).returns
  \/ lastOp'.op = "generateShareLink" /\ ~Val(lastOp'.arg).writable

(* C34: a session set-up that fails leaves the service outside any session:  *)
(* after joinSharedSession returns false, or after generateShareLink throws  *)
(* on a failed storage write, isInSharedSession() is false, getCurrentUser() *)
(* is null, and a broadcastEvent that follows writes nothing to the durable  *)
(* store.                                                                    *)
C34_FailedSetUpLeavesNoSession ==
  [][SetUpFails =>
       /\ ~isInSharedSession'
       /\ IsNull(currentUser')
       /\ \A kept \in KeepChoicesAfterWrite(Service', "draw", now') :
            broadcastEvent(Service', "draw", now', TRUE, kept).storedEvents
              = storedEvents']_vars

----------------------------------------------------------------------------
(* Properties of clicks (SpecGestures) *)

\* the pointer went down on an element with the hand tool and has not moved
DownOnElement ==
  /\ lastOp.op = "startDrawing"
  /\ tool = "hand"
  /\ isDrawing
  /\ ~IsNull(selectedImage) \/ ~IsNull(selectedText)

(* C35: selecting an element with the hand tool by pointer-down and          *)
(* pointer-up at the same point, with no pointer-move in between, leaves the *)
(* history and the cursor unchanged: the pointer-up of a pure click adds no  *)
(* undo step.                                                                *)
C35_ClickLeavesHistory ==
  [][DownOnElement /\ lastOp'.op = "stopDrawing" =>
       /\ currentHistory' = currentHistory
       /\ currentHistoryIndex' = currentHistoryIndex]_vars

----------------------------------------------------------------------------
(* Properties of the fixed corner (SpecResize) *)

\* the east and the south edge of an image action
EastEdge(action) ==
  Val(action.imageElement).position.x + Val(action.imageElement).width
SouthEdge(action) ==
  Val(action.imageElement).position.y + Val(action.imageElement).height

(* C36: a resize step from a corner handle keeps the opposite corner fixed:  *)
(* for every pointer position, after a step from a west handle position.x +  *)
(* width, and after a step from a north handle position.y + height, is what  *)
(* it was before the step, also when the minimum-size clamp applies.         *)
C36_OppositeCornerFixed ==
  [][lastOp'.op = "draw" /\ Resizing =>
       /\ Val(resizeHandle) \in {"nw", "sw"} =>
            EastEdge(Val(selectedImage')) = EastEdge(Val(selectedImage))
       /\ Val(resizeHandle) \in {"nw", "ne"} =>
            SouthEdge(Val(selectedImage')) = SouthEdge(Val(selectedImage))]_vars

----------------------------------------------------------------------------
(* Properties of uploads in flight (SpecInFlight) *)

\* the step commits an uploaded image: the load callbacks of the Canvas input
\* run, or handleFileChange of App
CommitsUpload == lastOp'.op \in {"imageInputLoaded", "fileChange"}

(* C37: an image upload whose file read and image decode complete after      *)
(* other commits were made loses nothing: the snapshot committed for the     *)
(* image holds every element of the snapshot that is current when the        *)
(* callback runs, in their order, and the new image after them.              *)
C37_UploadLosesNothing ==
  [][CommitsUpload =>
       /\ Len(CurrentSnapshot') = Len(CurrentSnapshot) + 1
       /\ SubSeq(CurrentSnapshot', 1, Len(CurrentSnapshot)) = CurrentSnapshot
       /\ CurrentSnapshot'[Len(CurrentSnapshot')].tool = "image"]_vars

----------------------------------------------------------------------------
(* Properties of session isolation (SpecIsolation) *)

\* the step delivers, over the channel or the storage listener, an envelope
\* published under another share id than the current one, or with no session
DeliversForeign ==
  /\ lastOp'.op \in {"channelMessage", "storageEvent"}
  /\ Some(Val(lastOp'.arg).entry.shareId) # shareId

\* the step is a poll tick while no presence envelope of another user is
\* stored under the current share id
PollsNothingOfSession ==
  /\ lastOp'.op = "pollTick"
  /\ ~(SessionActive /\ PresenceToPoll)

(* C38: sessions are isolated by shareId: an envelope published under share  *)
(* id S is never handled in a context whose current share id differs from S  *)
(* or that is in no session: its delivery over the channel, the storage      *)
(* listener or the poll leaves the peer map unchanged and notifies no        *)
(* listener, also after the context left one session and started another.    *)
C38_SessionsIsolated ==
  [][DeliversForeign \/ PollsNothingOfSession =>
       /\ connectedUsers' = connectedUsers
       /\ notified' = <<>>]_vars

============================================================================
